---- MODULE Spec2Model ----
(***************************************************************************)
(* windowmesh: a serverless mesh of browser windows.  Every window runs    *)
(* one VirtualEngine: a Store, a NetworkAdapter on a BroadcastChannel, the *)
(* message handler (EngineNetwork), the heartbeat/cleanup loop             *)
(* (EngineLifecycle) with the leader election, and the layout system       *)
(* (EngineLayout).                                                         *)
(*                                                                         *)
(* Time is the wall clock in milliseconds.  The clock advances in steps of *)
(* one heartbeat interval once every timer that is due has fired and every *)
(* message in flight is delivered (BroadcastChannel latency is far below   *)
(* one interval); within one instant timers of different windows and       *)
(* deliveries interleave freely, per-sender FIFO.                          *)
(***************************************************************************)
EXTENDS Integers, Sequences, FiniteSets, TLC

\* ------------------------------------------------------------------ bounds
\* Last clock reading of a run, in heartbeat intervals.
MaxTime == 7
MaxCount == 4
WorldHorizon == 5
RectHorizon == 5
InstalledJoin == 4
InstalledHorizon == 5
FlatHorizon == 5
ThrownHorizon == 6
StaleCrashBy == 1
StaleHorizon == 11
PollJoin == 4
PollHorizon == 6
MaxRects == 3
MaxVersions == 3
MaxUpdates == 3
MaxInbound == 3
MaxLayoutLen == 2
MaxRun == 8
\* Latest instant, in heartbeat intervals, at which a window may be opened
\* in the open-ended specification.
MaxStart == 5
StartHorizon == 5
JoinBy == 2
LeaveBy == 5
LeaveHorizon == 7
CrashBy == 5
SilentHorizon == 16
SplitAt == 5
HealAt == 17
SplitHorizon == 19
EarlyHorizon == 6
LagHorizon == 3
ShareAt == 4
ShareHorizon == 5
ConcurrentHorizon == 2
ClaimHorizon == 5
ClashStart == 1
ClashHorizon == 5
StaticHorizon == 5

\* --------------------------------------------------------- program constants
HEARTBEAT_INTERVAL == 1000
CLEANUP_INTERVAL == 5000
WINDOW_TIMEOUT == 5000
STARTUP_GRACE_PERIOD_TICKS == 3

\* A cleared timer handle (heartbeatTimer / cleanupTimer = null).
NoTimer == -1

\* ------------------------------------------------------------- optionals
\* undefined / null for string-valued fields, and for structured fields.
Undefined == "undefined"
None == <<>>
Some(v) == <<v>>
IsSome(o) == o # <<>>
The(o) == o[1]

\* ------------------------------------------------------------- identities
Peers == {"A", "B", "C", "D"}

\* String.prototype.localeCompare on the window ids of the model: -1, 0, 1.
IdRank(id) == CASE id = "A" -> 1 [] id = "B" -> 2 [] id = "C" -> 3 [] id = "D" -> 4 [] OTHER -> 5
localeCompare(a, b) == IF IdRank(a) < IdRank(b) THEN -1 ELSE IF IdRank(a) > IdRank(b) THEN 1 ELSE 0

\* charCodeAt over the characters of an id.
IdChars(id) ==
  CASE id = "A" -> <<65>> [] id = "B" -> <<66>> [] id = "C" -> <<67>> [] id = "D" -> <<68>>
    [] id = "S1" -> <<83, 49>> [] id = "S2" -> <<83, 50>> [] OTHER -> <<>>

\* The rectangle each window reports when it is opened (getCurrentWindowRect).
InitialRect(p) == [x |-> 100 * (IdRank(p) - 1), y |-> 0, w |-> 100, h |-> 100]

\* window.screen of the machine all windows run on.
PhysicalScreenSize(p) == Some([w |-> 1920, h |-> 1080])

\* The boot overrides of the URL the page runs under: ?screenId= and
\* ?screenPosition= as getScreenIdFromUrl and getScreenPositionFromUrl return
\* them (Undefined and None when absent).
VARIABLE boot
UrlScreenId(p) == boot.screenId
UrlScreenPosition(p) == boot.screenPosition

\* ------------------------------------------------------------- sequences
RECURSIVE SeqFilterIdx(_, _, _)
\* Indices i >= from of s with s[i].id # id, in order: s without entry id.
SeqFilterIdx(s, id, from) ==
  IF from > Len(s) THEN <<>>
  ELSE IF s[from].id = id THEN SeqFilterIdx(s, id, from + 1)
       ELSE <<s[from]>> \o SeqFilterIdx(s, id, from + 1)

\* Record<string, WindowSnapshot> as a list in key-insertion order.
HasKey(ws, id) == \E i \in 1..Len(ws) : ws[i].id = id
Lookup(ws, id) == ws[CHOOSE i \in 1..Len(ws) : ws[i].id = id]
\* windows[id] = snap: an existing key keeps its place, a new key goes last.
Upsert(ws, snap) ==
  IF HasKey(ws, snap.id)
  THEN [i \in 1..Len(ws) |-> IF ws[i].id = snap.id THEN snap ELSE ws[i]]
  ELSE Append(ws, snap)
\* delete windows[id]
DeleteKey(ws, id) == SeqFilterIdx(ws, id, 1)
Keys(ws) == {ws[i].id : i \in 1..Len(ws)}

Min2(a, b) == IF a < b THEN a ELSE b
Max2(a, b) == IF a > b THEN a ELSE b
Abs(a) == IF a < 0 THEN -a ELSE a

\* ------------------------------------------------------------- vfl.ts
\* Math.min(...values), Math.max(...values)
MinOf(values) == CHOOSE m \in values : \A n \in values : m <= n
MaxOf(values) == CHOOSE m \in values : \A n \in values : m >= n

RectOfCorners(minX, minY, maxX, maxY) ==
  [x |-> minX, y |-> minY, w |-> maxX - minX, h |-> maxY - minY]

\* unionRects: the axis-aligned bounding box of a non-empty list of rects.
unionRects(rects) ==
  RectOfCorners(MinOf({rects[i].x : i \in 1..Len(rects)}),
                MinOf({rects[i].y : i \in 1..Len(rects)}),
                MaxOf({rects[i].x + rects[i].w : i \in 1..Len(rects)}),
                MaxOf({rects[i].y + rects[i].h : i \in 1..Len(rects)}))

\* LayoutZ.parse: positive frame and screens, non-empty ids, at least one screen.
LayoutZ(layout) ==
  /\ layout.frame.w > 0 /\ layout.frame.h > 0
  /\ Len(layout.screens) >= 1
  /\ \A i \in 1..Len(layout.screens) :
       /\ layout.screens[i].w > 0 /\ layout.screens[i].h > 0
       /\ layout.screens[i].id # ""

\* LayoutZ.parse(normalized): [ok, layout]; ok = FALSE when parse throws.
Parsed(normalized) == [ok |-> LayoutZ(normalized), layout |-> normalized]

\* normalizeLayout({v: 1, screens})
normalizeLayout(screens) ==
  Parsed([v |-> 1, frame |-> unionRects(screens), screens |-> screens])

\* 32-bit arithmetic of stableRand01 on a pair of 16-bit halves <<hi, lo>>.
RECURSIVE XorFrom(_, _, _)
\* bits k..15 of a ^ b
XorFrom(a, b, k) ==
  IF k > 15 THEN 0
  ELSE ((((a \div (2 ^ k)) % 2) + ((b \div (2 ^ k)) % 2)) % 2) * (2 ^ k) + XorFrom(a, b, k + 1)
BitXor(a, b) == XorFrom(a, b, 0)
\* Math.imul(h, 16777619), 16777619 = 256 * 65536 + 403.
Imul(h) ==
  <<(h[1] * 403 + h[2] * 256 + ((h[2] * 403) \div 65536)) % 65536, (h[2] * 403) % 65536>>
RECURSIVE Fnv(_, _, _)
Fnv(chars, i, h) ==
  IF i > Len(chars) THEN h
  ELSE Fnv(chars, i + 1, Imul(<<h[1], BitXor(h[2], chars[i])>>))
\* (h >>> 0) % 1000000 of the hash h = hi * 65536 + lo.
Mod1e6(h) == (((((h[1] * 256) % 1000000) * 256) % 1000000) + h[2]) % 1000000
\* stableRand01(`${windowId}:${screenId}`) * 1000000; 2166136261 = 33052 * 65536 + 40389.
stableRand01(windowId, screenId) ==
  Mod1e6(Fnv(IdChars(windowId) \o <<58>> \o IdChars(screenId), 1, <<33052, 40389>>))
\* Screen ids: a window's id (dynamic layouts) or S1, S2, ... (getVflFromScreenDetails).
ScreenIds == Peers \cup {"S1", "S2"}
TieTable == [w \in Peers, s \in ScreenIds |-> stableRand01(w, s)]

\* calculateDimensionSimilarity(a, b) = 1 - num/den, kept as the reduced
\* fraction <<num, den>> of the difference (dw/mw + dh/mh)/2; <<1, 1>> is score 0.
RECURSIVE Gcd(_, _)
Gcd(a, b) ==
  IF b = 0 THEN a ELSE CHOOSE g \in {Gcd(pr[2], pr[1] % pr[2]) : pr \in {<<a, b>>}} : TRUE
Reduced(num, den, g) == <<num \div g, den \div g>>
Fraction(num, den) == Reduced(num, den, Gcd(den, num))
DimensionDiff(a, b) ==
  IF a.w <= 0 \/ a.h <= 0 \/ b.w <= 0 \/ b.h <= 0 THEN <<1, 1>>
  ELSE Fraction(Abs(a.w - b.w) * Max2(a.h, b.h) + Abs(a.h - b.h) * Max2(a.w, b.w),
                2 * Max2(a.w, b.w) * Max2(a.h, b.h))
\* score(d1) > score(d2), score(d1) = score(d2)
ScoreGreater(d1, d2) == d1[1] * d2[2] < d2[1] * d1[2]
ScoreEqual(d1, d2) == d1[1] * d2[2] = d2[1] * d1[2]

\* One round of findBestScreen: best = [screenId, diff, tie]; the first screen
\* always beats the initial score of -1, ties go to the smaller stable hash.
Better(best, next) ==
  IF best.diff = None THEN next
  ELSE IF ScoreGreater(next.diff, best.diff) THEN next
  ELSE IF ScoreEqual(next.diff, best.diff) /\ next.tie < best.tie THEN next
  ELSE best

RECURSIVE FindBestScreen(_, _, _, _, _)
FindBestScreen(windowId, target, screens, i, best) ==
  IF i > Len(screens) THEN best
  ELSE FindBestScreen(windowId, target, screens, i + 1,
         Better(best, [screenId |-> screens[i].id,
                       diff |-> DimensionDiff(target, [w |-> screens[i].w, h |-> screens[i].h]),
                       tie |-> TieTable[windowId, screens[i].id]]))

\* The physical-screen match wins when its score reaches the similarity
\* threshold 0.8 (difference <= 1/5), else the window-size match.
PickScreen(phys, win) ==
  IF phys.diff # None /\ 5 * phys.diff[1] <= phys.diff[2] THEN phys.screenId ELSE win.screenId

\* assignScreenForWindow: the id of the assigned screen (screens non-empty).
assignScreenForWindow(windowId, winRect, screens, physicalScreenSize) ==
  PickScreen(
    IF IsSome(physicalScreenSize) /\ The(physicalScreenSize).w > 0
       /\ The(physicalScreenSize).h > 0
    THEN FindBestScreen(windowId, The(physicalScreenSize), screens, 1,
                        [screenId |-> screens[1].id, diff |-> None, tie |-> 0])
    ELSE [screenId |-> screens[1].id, diff |-> None, tie |-> 0],
    FindBestScreen(windowId, [w |-> winRect.w, h |-> winRect.h], screens, 1,
                   [screenId |-> screens[1].id, diff |-> None, tie |-> 0]))

\* ------------------------------------------------------ EnginePositioning
FindScreen(screens, id) ==
  IF \E i \in 1..Len(screens) : screens[i].id = id
  THEN screens[CHOOSE i \in 1..Len(screens) :
         screens[i].id = id /\ \A j \in 1..(i - 1) : screens[j].id # id]
  ELSE screens[1]

calculateAssignedScreen(windowId, winRect, screens) ==
  IF UrlScreenId(windowId) # Undefined
     /\ \E i \in 1..Len(screens) : screens[i].id = UrlScreenId(windowId)
  THEN FindScreen(screens, UrlScreenId(windowId))
  ELSE FindScreen(screens,
         assignScreenForWindow(windowId, winRect, screens, PhysicalScreenSize(windowId)))

calculateRelativePositionToOrigin(windowId, winRect, screen) ==
  IF IsSome(UrlScreenPosition(windowId)) THEN The(UrlScreenPosition(windowId))
  ELSE [x |-> winRect.x, y |-> winRect.y]
calculateRelativePosition(windowId, winRect, screen) ==
  IF IsSome(UrlScreenPosition(windowId)) THEN The(UrlScreenPosition(windowId))
  ELSE [x |-> winRect.x - screen.x, y |-> winRect.y - screen.y]

calculateGlobalPosition(screen, relativePos, winW, winH) ==
  [x |-> screen.x + relativePos.x, y |-> screen.y + relativePos.y, w |-> winW, h |-> winH]

\* ------------------------------------------------------------------ state
VARIABLES
  now,             \* Date.now(), ms
  phase,           \* per window: "absent", "constructed" (session id pending), "started"
  health,          \* per window: "ok", "throttled" (timers do not fire), "crashed"
  createdAt,       \* VirtualEngine.createdAt
  store,           \* Store<VirtualState>.state
  ticksSinceStart, \* EngineLifecycle.ticksSinceStart
  heartbeatTimer,  \* next due time of the heartbeat interval, or NoTimer
  cleanupTimer,    \* next due time of the cleanup interval, or NoTimer
  network,         \* VirtualEngine.network is defined (adapter open)
  staticLayout,    \* static layout copies held by engine, layout system, lifecycle
  net,             \* messages in flight, per <<sender, receiver>>, FIFO
  partition,       \* bus partition of each window
  ticksRun,        \* history: heartbeat ticks run so far
  candSeen,        \* history: what the window's latest tick saw
  haltedAt,        \* history: when the window was throttled or crashed, or NoTimer
  healedAt,        \* history: when the bus partitions were merged, or NoTimer
  disposed,        \* history: dispose() has been called on the window
  cell,            \* a Store of its own: state, listeners and the calls of the latest write
  adapter,         \* the NetworkAdapter of window A: handlers and the calls of the latest message
  session,         \* per tab: the layout string it booted with and its session id
  world,           \* the latest two calls of recalculateWorld in succession: who, layouts, broadcasts
  leftOpen,        \* per window: dispose() left the BroadcastChannel open with its handlers bound
  view,            \* the latest call of recalculateLocalView on a state of its own: input, result
  jitter           \* a window fed LAYOUT_UPDATE events by hand: its state, the payloads handled

\* The units that run apart from the engines.
units == <<cell, adapter, session, world, leftOpen, boot, view, jitter>>

vars == <<now, phase, health, createdAt, store, ticksSinceStart, heartbeatTimer,
          cleanupTimer, network, staticLayout, net, partition, ticksRun, candSeen, haltedAt,
          healedAt, disposed, units>>

\* ------------------------------------------------------------- messages
Heartbeat(snap) == [type |-> "HEARTBEAT", payload |-> snap]
RequestLayout(id) == [type |-> "REQUEST_LAYOUT", payload |-> [id |-> id]]
Goodbye(id) == [type |-> "GOODBYE", payload |-> [id |-> id]]
LayoutUpdateMistyped(layout) == [type |-> "LAYOUT", payload |-> layout]
LayoutUpdate(layout) == [type |-> "LAYOUT_UPDATE", payload |-> layout]
SharedDataUpdate(key, value) == [type |-> "SHARED_DATA_UPDATE", payload |-> [key |-> key, value |-> value]]
LeaderClaim(id, t) == [type |-> "LEADER_CLAIM", payload |-> [id |-> id, timestamp |-> t]]

\* NetworkAdapter.broadcast on the BroadcastChannel: every other open adapter
\* of the same partition receives msgs, in order; the sender does not.
Broadcast(netv, open, s, msgs) ==
  [pr \in Peers \X Peers |->
     IF pr[1] = s /\ pr[2] # s /\ (open[pr[2]] \/ leftOpen[pr[2]])
        /\ health[pr[2]] # "crashed"
        /\ partition[pr[1]] = partition[pr[2]]
     THEN netv[pr] \o msgs ELSE netv[pr]]

\* close(): nothing queued for r is delivered any more.
DropInbound(netv, r) == [pr \in Peers \X Peers |-> IF pr[2] = r THEN <<>> ELSE netv[pr]]

\* ------------------------------------------------------------ EngineLayout
\* The local view of st once its window sits at globalVirtualRect of screen id.
Placed(st, layout, id, globalVirtualRect) ==
  [st EXCEPT !.assignedScreenId = id,
             !.viewportOffset = [x |-> globalVirtualRect.x - layout.frame.x,
                                 y |-> globalVirtualRect.y - layout.frame.y],
             !.virtualRect = Some(globalVirtualRect)]

ViewOn(st, layout, assignedScreen) ==
  Placed(st, layout, assignedScreen.id,
         calculateGlobalPosition(assignedScreen,
                                 calculateRelativePosition(st.windowId, st.winRect, assignedScreen),
                                 st.winRect.w, st.winRect.h))

ViewOf(st, activeLayout) ==
  IF ~IsSome(activeLayout) THEN st
  ELSE IF Len(The(activeLayout).screens) = 0 THEN st
  ELSE ViewOn(st, The(activeLayout),
              calculateAssignedScreen(st.windowId, st.winRect, The(activeLayout).screens))

\* recalculateLocalView on state st; sl is the layout system's static layout.
recalculateLocalView(st, sl) == ViewOf(st, IF IsSome(sl) THEN sl ELSE st.layout)

ScreensOfFirst(ws, i) ==
  IF Len(ws) = 0 THEN <<>>
  ELSE <<[id |-> ws[1].id, x |-> ws[1].rect.x, y |-> ws[1].rect.y,
          w |-> ws[1].rect.w, h |-> ws[1].rect.h]>>
RECURSIVE ScreensOfFresh(_, _)
ScreensOfFresh(ws, i) ==
  IF i > Len(ws) THEN <<>>
  ELSE IF ws[i].rect.w > 0 /\ now - ws[i].lastSeen < WINDOW_TIMEOUT
       THEN LET w == ws[i]
                g == IF IsSome(w.virtualRect) THEN The(w.virtualRect) ELSE w.rect
            IN <<[id |-> w.id, x |-> g.x, y |-> g.y, w |-> g.w, h |-> g.h]>>
                 \o ScreensOfFresh(ws, i + 1)
       ELSE ScreensOfFresh(ws, i + 1)
RECURSIVE ScreensOf(_, _)
\* allWindows.filter(w => w.rect && w.rect.w > 0).map(...)
ScreensOf(ws, i) ==
  IF i > Len(ws) THEN <<>>
  ELSE IF ws[i].rect.w > 0
       THEN LET w == ws[i]
                g == IF IsSome(w.virtualRect) THEN The(w.virtualRect) ELSE w.rect
            IN <<[id |-> w.id, x |-> g.x, y |-> g.y, w |-> g.w, h |-> g.h]>> \o ScreensOf(ws, i + 1)
       ELSE ScreensOf(ws, i + 1)

\* The layout is taken and broadcast whatever LayoutZ.parse says.
AdoptUnchecked(st, hasNet, sl, n) ==
  [st |-> recalculateLocalView([st EXCEPT !.layout = Some(n.layout)], sl),
   out |-> IF hasNet THEN <<LayoutUpdate(n.layout)>> ELSE <<>>,
   threw |-> FALSE]
\* The layout is broadcast only when it differs from the state's.
AdoptOnlyChanges(st, hasNet, sl, n) ==
  IF ~n.ok THEN [st |-> st, out |-> <<>>, threw |-> TRUE]
  ELSE [st |-> recalculateLocalView([st EXCEPT !.layout = Some(n.layout)], sl),
        out |-> IF hasNet /\ st.layout # Some(n.layout) THEN <<LayoutUpdate(n.layout)>> ELSE <<>>,
        threw |-> FALSE]
\* The parsed layout n becomes the state's layout and is broadcast.
Adopt(st, hasNet, sl, n) ==
  IF ~n.ok THEN [st |-> st, out |-> <<>>, threw |-> TRUE]
  ELSE [st |-> recalculateLocalView([st EXCEPT !.layout = Some(n.layout)], sl),
        out |-> IF hasNet THEN <<LayoutUpdate(n.layout)>> ELSE <<>>,
        threw |-> FALSE]

WorldOf(st, hasNet, sl, screens) ==
  IF Len(screens) = 0 THEN [st |-> st, out |-> <<>>, threw |-> FALSE]
  ELSE Adopt(st, hasNet, sl, normalizeLayout(screens))

\* The static layout is not looked at.
recalculateWorldOfWindows(st, hasNet, sl) == WorldOf(st, hasNet, sl, ScreensOf(st.windows, 1))
\* recalculateWorld: [st, out, threw]; out are the broadcasts, threw is set
\* when normalizeLayout throws and the caller is unwound.
recalculateWorld(st, hasNet, sl) ==
  IF IsSome(sl)
  THEN [st |-> IF st.layout # sl THEN [st EXCEPT !.layout = sl] ELSE st,
        out |-> IF hasNet THEN <<LayoutUpdate(The(sl))>> ELSE <<>>,
        threw |-> FALSE]
  ELSE WorldOf(st, hasNet, sl, ScreensOf(st.windows, 1))

\* ----------------------------------------------------------- EngineNetwork
RECURSIVE SharedDataMsgsButLast(_, _)
SharedDataMsgsButLast(sd, i) ==
  IF i >= Len(sd) THEN <<>>
  ELSE <<SharedDataUpdate(sd[i].key, sd[i].value)>> \o SharedDataMsgsButLast(sd, i + 1)
RECURSIVE SharedDataMsgs(_, _)
SharedDataMsgs(sd, i) ==
  IF i > Len(sd) THEN <<>>
  ELSE <<SharedDataUpdate(sd[i].key, sd[i].value)>> \o SharedDataMsgs(sd, i + 1)

PutSharedOnly(sd, key, value) == <<[key |-> key, value |-> value]>>
\* sharedData[key] = value on the ordered map sd of [key, value] entries.
PutShared(sd, key, value) ==
  IF \E i \in 1..Len(sd) : sd[i].key = key
  THEN [i \in 1..Len(sd) |-> IF sd[i].key = key THEN [key |-> key, value |-> value] ELSE sd[i]]
  ELSE Append(sd, [key |-> key, value |-> value])

\* this.store.set('windows', {...windows, [id]: snapshot}) unless the entry
\* already carries the snapshot's timestamp; then the HEARTBEAT broadcast.
Published(st, snapshot) ==
  [st |-> IF HasKey(st.windows, st.windowId)
             /\ Lookup(st.windows, st.windowId).timestamp = snapshot.timestamp
          THEN st ELSE [st EXCEPT !.windows = Upsert(st.windows, snapshot)],
   out |-> <<Heartbeat(snapshot)>>]

\* publishSelf at clock t: [st, out].
publishSelf(st, created, hasNet, t) ==
  IF ~hasNet THEN [st |-> st, out |-> <<>>]
  ELSE Published(st, [id |-> st.windowId, createdAt |-> created, rect |-> st.winRect,
                      lastSeen |-> t, assignedScreenId |-> st.assignedScreenId,
                      virtualRect |-> st.virtualRect, timestamp |-> t])

\* What a handler leaves behind when recalculateWorld ended as r.
Handled(r) == [st |-> r.st, out |-> r.out]
\* The leader answers REQUEST_LAYOUT: the layout, then every shared datum.
Answered(r) ==
  [st |-> r.st,
   out |-> IF r.threw THEN r.out ELSE r.out \o SharedDataMsgs(r.st.sharedData, 1)]
NeverEcho(st, event) == FALSE
\* if (win.id === windowId) return;  /  if (id === windowId) return;
IsEcho(st, event) == event.payload.id = st.windowId
StoodDownForgetful(st) == [st EXCEPT !.isLeader = FALSE, !.leaderId = Undefined]
\* this.store.set({ isLeader: false })
StoodDown(st) == [st EXCEPT !.isLeader = FALSE]
ReceivedAsSent(snapshot, t) == snapshot
\* { ...event.payload, lastSeen: Date.now() }
Received(snapshot, t) == [snapshot EXCEPT !.lastSeen = t]
NobodyRecalculates(st1, sl) == [st |-> st1, out |-> <<>>]
EveryoneRecalculates(st1, sl) == Handled(recalculateWorld(st1, TRUE, sl))
\* if (isLeader) recalculateWorld(), after the windows map was written.
LeaderRecalculates(st1, sl) ==
  IF st1.isLeader THEN Handled(recalculateWorld(st1, TRUE, sl)) ELSE [st |-> st1, out |-> <<>>]

\* handleMessage(event) at clock t on state st: [st, out].
handleMessage(st, event, t, sl) ==
  CASE event.type \in {"HELLO", "HEARTBEAT"} ->
         IF IsEcho(st, event) THEN [st |-> st, out |-> <<>>]
         ELSE LeaderRecalculates(
                [st EXCEPT !.windows = Upsert(st.windows, Received(event.payload, t))],
                sl)
    [] event.type = "REQUEST_LAYOUT" ->
         IF IsEcho(st, event) THEN [st |-> st, out |-> <<>>]
         ELSE IF st.isLeader THEN Answered(recalculateWorld(st, TRUE, sl))
         ELSE [st |-> st, out |-> <<>>]
    [] event.type = "GOODBYE" ->
         LeaderRecalculates([st EXCEPT !.windows = DeleteKey(st.windows, event.payload.id)], sl)
    [] event.type = "LAYOUT_UPDATE" ->
         IF ~st.isLeader
         THEN [st |-> recalculateLocalView([st EXCEPT !.layout = Some(event.payload)], sl),
               out |-> <<>>]
         ELSE [st |-> st, out |-> <<>>]
    [] event.type = "SHARED_DATA_UPDATE" ->
         [st |-> [st EXCEPT !.sharedData = PutShared(st.sharedData, event.payload.key,
                                                     event.payload.value)],
          out |-> <<>>]
    [] event.type = "LEADER_CLAIM" ->
         [st |-> StoodDown(st), out |-> <<>>]
    [] OTHER -> [st |-> st, out |-> <<>>]

\* ------------------------------------------------------ EngineLeaderElection
CompareByIdOnly(a, b) == localeCompare(a.id, b.id)
\* The comparator of sortCandidatesForLeadership: negative, zero or positive.
CompareCandidates(a, b) ==
  LET timeDiff == a.createdAt - b.createdAt
  IN IF timeDiff # 0 THEN timeDiff ELSE localeCompare(a.id, b.id)

RECURSIVE InsertSorted(_, _, _)
\* x placed behind every element that does not compare greater (stable sort).
InsertSorted(sorted, x, i) ==
  IF i > Len(sorted) THEN Append(sorted, x)
  ELSE IF CompareCandidates(sorted[i], x) > 0
       THEN SubSeq(sorted, 1, i - 1) \o <<x>> \o SubSeq(sorted, i, Len(sorted))
       ELSE InsertSorted(sorted, x, i + 1)

RECURSIVE SortFrom(_, _, _)
SortFrom(candidates, i, acc) ==
  IF i > Len(candidates) THEN acc
  ELSE SortFrom(candidates, i + 1, InsertSorted(acc, candidates[i], 1))

sortCandidatesForLeadership(candidates) == SortFrom(candidates, 1, <<>>)

EveryoneFrom(ws, i, timeout, t) == ws
RECURSIVE ActiveFrom(_, _, _, _)
\* filter(w => now - w.lastSeen < timeout)
ActiveFrom(ws, i, timeout, t) ==
  IF i > Len(ws) THEN <<>>
  ELSE IF t - ws[i].lastSeen < timeout
       THEN <<ws[i]>> \o ActiveFrom(ws, i + 1, timeout, t)
       ELSE ActiveFrom(ws, i + 1, timeout, t)

Elected(leader, myWindow, activeCandidates) ==
  [leaderId |-> leader.id, isMe |-> leader.id = myWindow.id, candidates |-> activeCandidates]

LeaderAmong(activeCandidates, myWindow) ==
  IF Len(activeCandidates) = 0
  THEN [leaderId |-> Undefined, isMe |-> FALSE, candidates |-> <<>>]
  ELSE Elected(sortCandidatesForLeadership(activeCandidates)[1], myWindow, activeCandidates)

\* selectLeader(allWindows, myWindow, timeout) at clock t.
selectLeader(allWindows, myWindow, timeout, t) ==
  LeaderAmong(ActiveFrom(Append(allWindows, myWindow), 1, timeout, t), myWindow)

\* ---------------------------------------------------------- EngineLifecycle
InWarmUpOffByOne(ticks) == ticks <= STARTUP_GRACE_PERIOD_TICKS
\* B. Warm-Up Phase: this.ticksSinceStart < STARTUP_GRACE_PERIOD_TICKS
InWarmUp(ticks) == ticks < STARTUP_GRACE_PERIOD_TICKS

\* History of a tick: the ids the window knew, whether the election ran, and
\* the ids of its candidates.
Seen(state, sel) ==
  [known |-> Keys(state.windows), elected |-> TRUE,
   cand |-> {sel.candidates[i].id : i \in 1..Len(sel.candidates)}]

\* D. isMe and not yet leader: isLeader is set and the world recalculated (r).
TookLeadership(r, out, ticks, seen) ==
  [st |-> r.st, out |-> out \o r.out, ticks |-> ticks, cand |-> seen]

AppliedWithoutStandingDown(state, st1, out, sel, ticks, sl) ==
  IF sel.isMe /\ ~state.isLeader
  THEN TookLeadership(recalculateWorld([st1 EXCEPT !.isLeader = TRUE], TRUE, sl),
                      out, ticks, Seen(state, sel))
  ELSE [st |-> st1, out |-> out, ticks |-> ticks, cand |-> Seen(state, sel)]

\* D. Apply Leader/Follower State changes; st1 is the state with leaderId synced.
Applied(state, st1, out, sel, ticks, sl) ==
  IF sel.isMe /\ ~state.isLeader
  THEN TookLeadership(recalculateWorld([st1 EXCEPT !.isLeader = TRUE], TRUE, sl),
                      out, ticks, Seen(state, sel))
  ELSE [st |-> IF ~sel.isMe /\ state.isLeader THEN [st1 EXCEPT !.isLeader = FALSE] ELSE st1,
        out |-> out, ticks |-> ticks, cand |-> Seen(state, sel)]

\* C. leaderId synced to the store, REQUEST_LAYOUT polled while a follower
\* holds no layout.
Decided(state, out, sel, ticks, sl) ==
  Applied(state,
          IF state.leaderId # sel.leaderId THEN [state EXCEPT !.leaderId = sel.leaderId]
          ELSE state,
          IF ~state.isLeader /\ ~IsSome(state.layout)
          THEN out \o <<RequestLayout(state.windowId)>> ELSE out,
          sel, ticks, sl)

\* tick() after publishSelf ended as ps.
Ticked(ps, created, ticks, t, sl) ==
  IF InWarmUp(ticks)
  THEN [st |-> ps.st, out |-> ps.out, ticks |-> ticks + 1,
        cand |-> [known |-> Keys(ps.st.windows), elected |-> FALSE, cand |-> {}]]
  ELSE Decided(ps.st, ps.out,
               selectLeader(ps.st.windows,
                            [id |-> ps.st.windowId, createdAt |-> created, lastSeen |-> t,
                             rect |-> ps.st.winRect, timestamp |-> t],
                            WINDOW_TIMEOUT, t),
               ticks, sl)

\* tick() at clock t: [st, out, ticks, cand]; cand records what the tick saw.
tick(st0, created, ticks, t, sl) ==
  Ticked(publishSelf(st0, created, TRUE, t), created, ticks, t, sl)

KeepEveryone(ws, i, windowId, t) == ws
RECURSIVE KeepFresh(_, _, _, _)
\* the windows cleanupFn keeps: self, and whoever was seen within the timeout.
KeepFresh(ws, i, windowId, t) ==
  IF i > Len(ws) THEN <<>>
  ELSE IF ws[i].id # windowId /\ t - ws[i].lastSeen > WINDOW_TIMEOUT
       THEN KeepFresh(ws, i + 1, windowId, t)
       ELSE <<ws[i]>> \o KeepFresh(ws, i + 1, windowId, t)

CleanedWithoutWorld(st, nextWindows, lsl, sl) ==
  [st |-> [st EXCEPT !.windows = nextWindows], out |-> <<>>]
\* if (changed): the map is written, and a leader without static layout
\* recalculates the world.
Cleaned(st, nextWindows, lsl, sl) ==
  IF Len(nextWindows) = Len(st.windows) THEN [st |-> st, out |-> <<>>]
  ELSE IF st.isLeader /\ ~IsSome(lsl)
       THEN Handled(recalculateWorld([st EXCEPT !.windows = nextWindows], TRUE, sl))
       ELSE [st |-> [st EXCEPT !.windows = nextWindows], out |-> <<>>]

\* cleanupFn() at clock t: [st, out]; lsl is the lifecycle's static layout,
\* sl the layout system's.
cleanupFn(st, t, lsl, sl) == Cleaned(st, KeepFresh(st.windows, 1, st.windowId, t), lsl, sl)

\* -------------------------------------------------------------- EngineStore
\* A Store<{count, name}> as in Store.test.ts.  c.listeners is the Set of
\* listeners in insertion order; c.calls logs the listener calls of the latest
\* write as [listener, got, round], where round numbers the emit() that made the
\* call and c.rounds[round] is the snapshot that emit() was started for;
\* c.failed is set when set/update ends by throwing.
\* The listeners: two that only read, one that throws, one that writes back
\* (it rounds an odd count up to the next even one).
Listeners == {"first", "second", "thrower", "writer"}
InitialCell ==
  [state |-> [count |-> 0, name |-> "test"], listeners |-> <<>>, calls |-> <<>>,
   rounds |-> <<>>, failed |-> FALSE]

\* { ...this.state, ...changes }
Spread(state, changes) ==
  [k \in DOMAIN state |-> IF k \in DOMAIN changes THEN changes[k] ELSE state[k]]

\* No try/catch: the first throwing listener ends the write.
CalledUncaught(c, l, k) ==
  IF c.failed THEN c
  ELSE [c EXCEPT !.calls = Append(@, [listener |-> l, got |-> c.state, round |-> k]),
                 !.failed = (l = "thrower")]
\* l(this.state) inside try/catch: the call is logged with the state the
\* store holds at that moment.
Called(c, l, k) ==
  [c EXCEPT !.calls = Append(@, [listener |-> l, got |-> c.state, round |-> k])]

RECURSIVE emit(_, _, _)
RECURSIVE StoreSet(_, _)
\* What the listener l does when called: the writer calls set() again.
Reacted(c, l) ==
  IF l = "writer" /\ c.state.count % 2 = 1
  THEN StoreSet(c, [count |-> c.state.count + 1])
  ELSE c
\* this.listeners.forEach(...) from the i-th listener on, in the emit() number k.
emit(c, i, k) ==
  IF i > Len(c.listeners) THEN c
  ELSE emit(Reacted(Called(c, c.listeners[i], k), c.listeners[i]), i + 1, k)
\* this.state = next; this.emit()
Written(c, next) ==
  emit([c EXCEPT !.state = next, !.rounds = Append(@, next)], 1, Len(c.rounds) + 1)
\* set(changes)
StoreSet(c, changes) == Written(c, Spread(c.state, changes))
\* update(draft => { draft.count++ })
StoreUpdate(c) == Written(c, [c.state EXCEPT !.count = @ + 1])
\* subscribe(l): Set.add keeps the place of a listener that is already in.
StoreSubscribe(c, l) ==
  IF \E i \in 1..Len(c.listeners) : c.listeners[i] = l THEN c
  ELSE [c EXCEPT !.listeners = Append(@, l)]
\* The function subscribe() returned: Set.delete.
StoreUnsubscribe(c, l) ==
  [c EXCEPT !.listeners = SelectSeq(@, LAMBDA x : x # l)]

\* ------------------------------------------------------ EngineNetworkAdapter
\* a.listeners is the Set of handlers in insertion order, a.calls logs the
\* handler calls of the latest message event as [handler, got], a.last is its
\* data, a.received counts the message events, a.failed is set when
\* handleMessage ends by throwing.
\* The handlers: the engine's (msg => networkSystem.handleMessage(msg)), one
\* that throws and one that only reads.
Handlers == {"engine", "thrower", "other"}
\* ev.data of a message event: null, {}, { type: '' }, and events of the protocol.
Null == [null |-> TRUE]
Inbounds ==
  {Null, [payload |-> [id |-> "B"]], [type |-> "", payload |-> [id |-> "B"]],
   RequestLayout("B"), SharedDataUpdate("k1", 1), LeaderClaim("B", 0)}
InitialAdapter ==
  [listeners |-> <<>>, calls |-> <<>>, last |-> Null, received |-> 0, failed |-> FALSE]

\* if (!data || !data.type) return;
Dropped(data) ==
  \/ "null" \in DOMAIN data
  \/ "type" \notin DOMAIN data
  \/ data.type = ""
\* No try/catch: the first throwing handler ends the dispatch.
HandedUncaught(a, h, data) ==
  IF a.failed THEN a
  ELSE [a EXCEPT !.calls = Append(@, [handler |-> h, got |-> data]),
                 !.failed = (h = "thrower")]
\* try { l(data) } catch
Handed(a, h, data) == [a EXCEPT !.calls = Append(@, [handler |-> h, got |-> data])]
RECURSIVE Dispatched(_, _, _)
\* this.listeners.forEach(...) from the i-th handler on.
Dispatched(a, data, i) ==
  IF i > Len(a.listeners) THEN a
  ELSE Dispatched(Handed(a, a.listeners[i], data), data, i + 1)
\* NetworkAdapter.handleMessage(ev)
adapterHandleMessage(a, data) ==
  IF Dropped(data) THEN a ELSE Dispatched(a, data, 1)
\* onMessage(handler), and the function it returns.
onMessage(a, h) ==
  IF \E i \in 1..Len(a.listeners) : a.listeners[i] = h THEN a
  ELSE [a EXCEPT !.listeners = Append(@, h)]
offMessage(a, h) == [a EXCEPT !.listeners = SelectSeq(@, LAMBDA x : x # h)]

\* ------------------------------------------------------- EngineSessionUtils
\* A string is a sequence of one-character strings.  A 32-bit integer is the
\* pair of its 16-bit halves [hi, lo], the same bits for the signed and the
\* unsigned reading.
Tabs == {"A", "B"}
Alphabet == {"A", "B", "a"}
charCodeAt(ch) ==
  CASE ch = "A" -> 65 [] ch = "B" -> 66 [] ch = "a" -> 97 [] ch = "t" -> 116
    [] ch = "e" -> 101 [] ch = "s" -> 115 [] ch = "1" -> 49 [] ch = "2" -> 50
RECURSIVE Run(_, _)
Run(ch, n) == IF n = 0 THEN <<>> ELSE <<ch>> \o Run(ch, n - 1)
\* The layout strings tried: every string of up to MaxLayoutLen letters, runs
\* of one letter long enough to overflow 32 bits, and the strings of the tests.
LayoutStrings ==
  UNION {[1..n -> Alphabet] : n \in 0..MaxLayoutLen}
    \cup {Run("a", n) : n \in 1..MaxRun}
    \cup {<<"t", "e", "s", "t">>, <<"t", "e", "s", "t", "1">>, <<"t", "e", "s", "t", "2">>}
\* private sessionId: string = "default";
InitialSession ==
  [layoutString |-> <<>>, sessionId |-> <<"d", "e", "f", "a", "u", "l", "t">>]

Word == 65536
Zero32 == [hi |-> 0, lo |-> 0]
\* hash << 4
ShiftLeft4(h) ==
  [hi |-> (h.hi * 16 + (h.lo * 16) \div Word) % Word, lo |-> (h.lo * 16) % Word]
\* hash << 5
ShiftLeft5(h) ==
  [hi |-> (h.hi * 32 + (h.lo * 32) \div Word) % Word, lo |-> (h.lo * 32) % Word]
\* a - b, cut to 32 bits by the following hash & hash
Minus32(a, b) ==
  [hi |-> (a.hi - b.hi - (IF a.lo < b.lo THEN 1 ELSE 0)) % Word,
   lo |-> (a.lo - b.lo) % Word]
\* The character is left out of the sum.
PlusNothing(a, n) == a
\* a + char, cut to 32 bits by the following hash & hash
Plus32(a, n) ==
  [hi |-> (a.hi + (a.lo + n) \div Word) % Word, lo |-> (a.lo + n) % Word]
RECURSIVE HashFrom(_, _, _)
\* for (let i = 0; ...) { hash = (hash << 5) - hash + char; hash = hash & hash; }
HashFrom(layoutString, i, hash) ==
  IF i > Len(layoutString) THEN hash
  ELSE HashFrom(layoutString, i + 1,
                Plus32(Minus32(ShiftLeft5(hash), hash), charCodeAt(layoutString[i])))
HexDigit(n) ==
  <<"0", "1", "2", "3", "4", "5", "6", "7", "8", "9", "a", "b", "c", "d", "e", "f">>[n + 1]
\* The eight hexadecimal places of (hash >>> 0), the highest first.
Places(h) ==
  <<h.hi \div 4096, (h.hi \div 256) % 16, (h.hi \div 16) % 16, h.hi % 16,
    h.lo \div 4096, (h.lo \div 256) % 16, (h.lo \div 16) % 16, h.lo % 16>>
RECURSIVE Stripped(_)
\* No leading zeros; one digit is always kept.
Stripped(places) ==
  IF Len(places) > 1 /\ places[1] = 0 THEN Stripped(Tail(places)) ELSE places
\* (hash >>> 0).toString(16)
toString16(h) ==
  [i \in 1..Len(Stripped(Places(h))) |-> HexDigit(Stripped(Places(h))[i])]
generateSessionId(layoutString) ==
  IF layoutString = <<>> THEN <<"d", "e", "f", "a", "u", "l", "t">>
  ELSE <<"v", "w", "i", "n", ":">> \o toString16(HashFrom(layoutString, 1, Zero32))

\* ------------------------------------------------------------ VirtualEngine
\* The store the constructor builds.
InitialState(windowId, initialRect, sl) ==
  [windowId |-> windowId, winRect |-> initialRect, windows |-> <<>>, layout |-> sl,
   assignedScreenId |-> Undefined, viewportOffset |-> [x |-> 0, y |-> 0],
   virtualRect |-> None, isLeader |-> FALSE, leaderId |-> Undefined,
   permissionGranted |-> FALSE, sharedData |-> <<>>]

NoStatic == [engine |-> None, layout |-> None, lifecycle |-> None]
\* A URL without boot overrides.
NoBoot == [screenId |-> Undefined, screenPosition |-> None]

Init ==
  /\ now = 0
  /\ phase = [p \in Peers |-> "absent"]
  /\ health = [p \in Peers |-> "ok"]
  /\ createdAt = [p \in Peers |-> 0]
  /\ store = [p \in Peers |-> InitialState(p, InitialRect(p), None)]
  /\ ticksSinceStart = [p \in Peers |-> 0]
  /\ heartbeatTimer = [p \in Peers |-> NoTimer]
  /\ cleanupTimer = [p \in Peers |-> NoTimer]
  /\ network = [p \in Peers |-> FALSE]
  /\ staticLayout = [p \in Peers |-> NoStatic]
  /\ net = [pr \in Peers \X Peers |-> <<>>]
  /\ partition = [p \in Peers |-> 0]
  /\ ticksRun = [p \in Peers |-> 0]
  /\ candSeen = [p \in Peers |-> [known |-> {}, elected |-> FALSE, cand |-> {}]]
  /\ haltedAt = [p \in Peers |-> NoTimer]
  /\ healedAt = NoTimer
  /\ disposed = [p \in Peers |-> FALSE]
  /\ cell = InitialCell
  /\ adapter = InitialAdapter
  /\ session = [p \in Tabs |-> InitialSession]
  /\ world = None
  /\ leftOpen = [p \in Peers |-> FALSE]
  /\ boot = NoBoot
  /\ view = None
  /\ jitter = None

Started(p) == phase[p] = "started"

\* new VirtualEngine(windowId, initialRect): the synchronous part.
Construct(p) ==
  /\ phase[p] = "absent"
  /\ phase' = [phase EXCEPT ![p] = "constructed"]
  /\ createdAt' = [createdAt EXCEPT ![p] = now]
  /\ store' = [store EXCEPT ![p] = InitialState(p, InitialRect(p), staticLayout[p].engine)]
  /\ UNCHANGED <<now, health, ticksSinceStart, heartbeatTimer, cleanupTimer, network,
                 staticLayout, net, partition, ticksRun, candSeen, haltedAt, healedAt, disposed, units>>

\* initializeNetwork once generateSessionId has resolved.
InitializeNetwork(p) ==
  /\ phase[p] = "constructed"
  /\ health[p] # "crashed"
  /\ network' = [network EXCEPT ![p] = TRUE]
  /\ \E ps1 \in {publishSelf(store[p], createdAt[p], TRUE, now)} :
       \E ps2 \in {publishSelf(IF IsSome(staticLayout[p].engine)
                                THEN recalculateLocalView(ps1.st, staticLayout[p].layout)
                                ELSE ps1.st,
                                createdAt[p], TRUE, now)} :
         /\ store' = [store EXCEPT ![p] = ps2.st]
         /\ net' = Broadcast(net, [network EXCEPT ![p] = TRUE], p,
                             <<RequestLayout(store[p].windowId)>> \o ps1.out \o ps2.out)
  /\ phase' = [phase EXCEPT ![p] = "started"]
  /\ heartbeatTimer' = [heartbeatTimer EXCEPT ![p] = now + HEARTBEAT_INTERVAL]
  /\ cleanupTimer' = [cleanupTimer EXCEPT ![p] = now + CLEANUP_INTERVAL]
  /\ UNCHANGED <<now, health, createdAt, ticksSinceStart, staticLayout, partition,
                 ticksRun, candSeen, haltedAt, healedAt, disposed, units>>

\* The heartbeat interval fires.
Tick(p) ==
  /\ health[p] = "ok"
  /\ heartbeatTimer[p] # NoTimer
  /\ heartbeatTimer[p] <= now
  /\ \E r \in {tick(store[p], createdAt[p], ticksSinceStart[p], now, staticLayout[p].layout)} :
       /\ store' = [store EXCEPT ![p] = r.st]
       /\ net' = Broadcast(net, network, p, r.out)
       /\ ticksSinceStart' = [ticksSinceStart EXCEPT ![p] = r.ticks]
       /\ candSeen' = [candSeen EXCEPT ![p] = r.cand]
  /\ heartbeatTimer' = [heartbeatTimer EXCEPT ![p] = @ + HEARTBEAT_INTERVAL]
  /\ ticksRun' = [ticksRun EXCEPT ![p] = @ + 1]
  /\ UNCHANGED <<now, phase, health, createdAt, cleanupTimer, network, staticLayout,
                 partition, haltedAt, healedAt, disposed, units>>

\* The cleanup interval fires; a heartbeat due at the same instant runs first.
Cleanup(p) ==
  /\ health[p] = "ok"
  /\ cleanupTimer[p] # NoTimer
  /\ cleanupTimer[p] <= now
  /\ heartbeatTimer[p] = NoTimer \/ heartbeatTimer[p] > cleanupTimer[p]
  /\ \E r \in {cleanupFn(store[p], now, staticLayout[p].lifecycle, staticLayout[p].layout)} :
       /\ store' = [store EXCEPT ![p] = r.st]
       /\ net' = Broadcast(net, network, p, r.out)
  /\ cleanupTimer' = [cleanupTimer EXCEPT ![p] = @ + CLEANUP_INTERVAL]
  /\ UNCHANGED <<now, phase, health, createdAt, ticksSinceStart, heartbeatTimer, network,
                 staticLayout, partition, ticksRun, candSeen, haltedAt, healedAt, disposed, units>>

\* The BroadcastChannel delivers the oldest message s sent to r.
Deliver(s, r) ==
  /\ net[<<s, r>>] # <<>>
  /\ network[r]
  /\ health[r] # "crashed"
  /\ \E h \in {handleMessage(store[r], Head(net[<<s, r>>]), now, staticLayout[r].layout)} :
       /\ store' = [store EXCEPT ![r] = h.st]
       /\ net' = Broadcast([net EXCEPT ![<<s, r>>] = Tail(@)], network, r, h.out)
  /\ UNCHANGED <<now, phase, health, createdAt, ticksSinceStart, heartbeatTimer,
                 cleanupTimer, network, staticLayout, partition, ticksRun, candSeen, haltedAt, healedAt, disposed, units>>

DisposeKeepsCleanupTimer(p) ==
  /\ phase[p] # "absent"
  /\ health[p] # "crashed"
  /\ heartbeatTimer' = [heartbeatTimer EXCEPT ![p] = NoTimer]
  /\ IF network[p]
     THEN /\ net' = DropInbound(Broadcast(net, network, p, <<Goodbye(store[p].windowId)>>), p)
          /\ network' = [network EXCEPT ![p] = FALSE]
     ELSE UNCHANGED <<net, network>>
  /\ disposed' = [disposed EXCEPT ![p] = TRUE]
  /\ UNCHANGED <<now, phase, health, createdAt, store, ticksSinceStart, cleanupTimer,
                 staticLayout, partition, ticksRun, candSeen, haltedAt, healedAt, units>>

\* dispose()
Dispose(p) ==
  /\ phase[p] # "absent"
  /\ health[p] # "crashed"
  /\ heartbeatTimer' = [heartbeatTimer EXCEPT ![p] = NoTimer]
  /\ cleanupTimer' = [cleanupTimer EXCEPT ![p] = NoTimer]
  /\ IF network[p]
     THEN /\ net' = DropInbound(Broadcast(net, network, p, <<Goodbye(store[p].windowId)>>), p)
          /\ network' = [network EXCEPT ![p] = FALSE]
     ELSE UNCHANGED <<net, network>>
  /\ disposed' = [disposed EXCEPT ![p] = TRUE]
  /\ UNCHANGED <<now, phase, health, createdAt, store, ticksSinceStart, staticLayout,
                 partition, ticksRun, candSeen, haltedAt, healedAt, units>>

\* dispose() when the GOODBYE broadcast throws: the timers are cleared before
\* the try block; close() stands behind broadcast() inside the same try block
\* and is skipped; the catch block warns; network becomes undefined. The
\* channel stays open with onmessage bound and the engine's handler subscribed.
DisposeThrowing(p) ==
  /\ phase[p] # "absent"
  /\ health[p] # "crashed"
  /\ network[p]
  /\ heartbeatTimer' = [heartbeatTimer EXCEPT ![p] = NoTimer]
  /\ cleanupTimer' = [cleanupTimer EXCEPT ![p] = NoTimer]
  /\ network' = [network EXCEPT ![p] = FALSE]
  /\ leftOpen' = [leftOpen EXCEPT ![p] = TRUE]
  /\ disposed' = [disposed EXCEPT ![p] = TRUE]
  /\ UNCHANGED <<now, phase, health, createdAt, store, ticksSinceStart, staticLayout, net,
                 partition, ticksRun, candSeen, haltedAt, healedAt, cell, adapter, session,
                 world, boot, view,
                 jitter>>

\* The channel left open delivers the oldest message s sent to r: the adapter
\* hands it to the engine's handler; getNetwork() is undefined, so whatever
\* the handler would broadcast is not sent.
DeliverLeftOpen(s, r) ==
  /\ net[<<s, r>>] # <<>>
  /\ leftOpen[r] /\ ~network[r]
  /\ health[r] # "crashed"
  /\ \E h \in {handleMessage(store[r], Head(net[<<s, r>>]), now, staticLayout[r].layout)} :
       store' = [store EXCEPT ![r] = h.st]
  /\ net' = [net EXCEPT ![<<s, r>>] = Tail(@)]
  /\ UNCHANGED <<now, phase, health, createdAt, ticksSinceStart, heartbeatTimer,
                 cleanupTimer, network, staticLayout, partition, ticksRun, candSeen, haltedAt,
                 healedAt, disposed, units>>

\* The layout parameter of the URL the window is opened with: absent, the
\* layout getVflFromScreenDetails encodes for two displays side by side, or
\* the same screens under a frame that covers the first display only.
SideBySide ==
  [v |-> 1, frame |-> [x |-> 0, y |-> 0, w |-> 3840, h |-> 1080],
   screens |-> <<[id |-> "S1", x |-> 0, y |-> 0, w |-> 1920, h |-> 1080],
                 [id |-> "S2", x |-> 1920, y |-> 0, w |-> 1920, h |-> 1080]>>]
Cropped == [SideBySide EXCEPT !.frame = [x |-> 0, y |-> 0, w |-> 1920, h |-> 1080]]
UrlParams == {None, Some(SideBySide), Some(Cropped)}

\* decodeVflFromUrlParam: the layout if LayoutZ.parse accepts it, else null.
decodeVflFromUrlParam(param) ==
  IF IsSome(param) /\ LayoutZ(The(param)) THEN param ELSE None
getStaticLayoutFromUrl(param) == decodeVflFromUrlParam(param)

\* new VirtualEngine(windowId, initialRect) in a window whose URL carries
\* param; windows of one session carry the same layout parameter.
ConstructFrom(p, param) ==
  /\ phase[p] = "absent"
  /\ \A q \in Peers : phase[q] # "absent" =>
       staticLayout[q].lifecycle = getStaticLayoutFromUrl(param)
  /\ phase' = [phase EXCEPT ![p] = "constructed"]
  /\ createdAt' = [createdAt EXCEPT ![p] = now]
  /\ staticLayout' = [staticLayout EXCEPT ![p] =
                        [engine |-> getStaticLayoutFromUrl(param),
                         layout |-> getStaticLayoutFromUrl(param),
                         lifecycle |-> getStaticLayoutFromUrl(param)]]
  /\ store' = [store EXCEPT ![p] =
                 InitialState(p, InitialRect(p), getStaticLayoutFromUrl(param))]
  /\ UNCHANGED <<now, health, ticksSinceStart, heartbeatTimer, cleanupTimer, network,
                 net, partition, ticksRun, candSeen, haltedAt, healedAt, disposed, units>>

\* computeWithoutPermission: one screen, the window's own, of the size of the
\* physical display.
OwnScreenLayout(p) ==
  normalizeLayout(<<[id |-> p, x |-> 0, y |-> 0,
                     w |-> The(PhysicalScreenSize(p)).w,
                     h |-> The(PhysicalScreenSize(p)).h]>>).layout

\* EngineLayout.setStaticLayout: a layout given forces recalculateWorld.
Forced(st, hasNet, layout) ==
  IF IsSome(layout) THEN recalculateWorld(st, hasNet, layout)
  ELSE [st |-> st, out |-> <<>>, threw |-> FALSE]

\* setStaticLayout(layout); the closing store.update(s => ({layout})) returns
\* its object instead of writing the draft and changes nothing.
SetStaticLayout(p, layout) ==
  /\ phase[p] # "absent"
  /\ health[p] # "crashed"
  /\ staticLayout' = [staticLayout EXCEPT ![p].engine = layout, ![p].layout = layout]
  /\ \E r \in {Forced(store[p], network[p], layout)} :
       /\ store' = [store EXCEPT ![p] = recalculateLocalView(r.st, layout)]
       /\ net' = Broadcast(net, network, p, r.out)
  /\ UNCHANGED <<now, phase, health, createdAt, ticksSinceStart, heartbeatTimer,
                 cleanupTimer, network, partition, ticksRun, candSeen, haltedAt, healedAt,
                 disposed, units>>

\* The browser throttles the window: its timers stop firing, its message
\* handler stays live.
Throttle(p) ==
  /\ phase[p] = "started"
  /\ health[p] = "ok"
  /\ network[p]
  /\ health' = [health EXCEPT ![p] = "throttled"]
  /\ haltedAt' = [haltedAt EXCEPT ![p] = now]
  /\ UNCHANGED <<now, phase, createdAt, store, ticksSinceStart, heartbeatTimer, cleanupTimer,
                 network, staticLayout, net, partition, ticksRun, candSeen, healedAt, disposed, units>>

\* The window dies without a GOODBYE: no timer, no handler runs again.
Crash(p) ==
  /\ phase[p] = "started"
  /\ health[p] = "ok"
  /\ network[p]
  /\ health' = [health EXCEPT ![p] = "crashed"]
  /\ haltedAt' = [haltedAt EXCEPT ![p] = now]
  /\ net' = DropInbound(net, p)
  /\ UNCHANGED <<now, phase, createdAt, store, ticksSinceStart, heartbeatTimer, cleanupTimer,
                 network, staticLayout, partition, ticksRun, candSeen, healedAt, disposed, units>>

\* InMemoryBus.setPartition: the bus falls into the groups given by part.
Split(part) ==
  /\ healedAt = NoTimer
  /\ partition # part
  /\ partition' = part
  /\ UNCHANGED <<now, phase, health, createdAt, store, ticksSinceStart, heartbeatTimer,
                 cleanupTimer, network, staticLayout, net, ticksRun, candSeen, haltedAt,
                 healedAt, disposed, units>>

\* InMemoryBus.setPartition(id, 0) for every window: the groups are merged.
Heal ==
  /\ \E p \in Peers : partition[p] # 0
  /\ partition' = [p \in Peers |-> 0]
  /\ healedAt' = now
  /\ UNCHANGED <<now, phase, health, createdAt, store, ticksSinceStart, heartbeatTimer,
                 cleanupTimer, network, staticLayout, net, ticksRun, candSeen, haltedAt, disposed, units>>

\* A timer of a running window is due.
TimerDue(p) ==
  /\ health[p] = "ok"
  /\ \/ heartbeatTimer[p] # NoTimer /\ heartbeatTimer[p] <= now
     \/ cleanupTimer[p] # NoTimer /\ cleanupTimer[p] <= now

Quiet == \A pr \in Peers \X Peers : net[pr] = <<>>

\* Time passes: one heartbeat interval, once the instant's work is done;
\* horizon is the last clock reading of the run, in heartbeat intervals.
AdvanceClock(horizon) ==
  /\ now < horizon * HEARTBEAT_INTERVAL
  /\ Quiet
  /\ \A p \in Peers : ~TimerDue(p) /\ (phase[p] = "constructed" => health[p] = "crashed")
  /\ now' = now + HEARTBEAT_INTERVAL
  /\ UNCHANGED <<phase, health, createdAt, store, ticksSinceStart, heartbeatTimer,
                 cleanupTimer, network, staticLayout, net, partition, ticksRun, candSeen,
                 haltedAt, healedAt, disposed, units>>

\* ---------------------------------------------------------------------------
\* Spec: two windows, each opened at any instant up to MaxStart; a started
\* window is disposed, throttled or killed at any moment.
Roster == {"A", "B"}

Next ==
  \/ \E p \in Roster : now <= MaxStart * HEARTBEAT_INTERVAL /\ Construct(p)
  \/ \E p \in Roster : InitializeNetwork(p)
  \/ \E p \in Roster : Tick(p)
  \/ \E p \in Roster : Cleanup(p)
  \/ \E s \in Roster, r \in Roster : Deliver(s, r)
  \/ \E p \in Roster : Started(p) /\ Dispose(p)
  \/ \E p \in Roster : Throttle(p)
  \/ \E p \in Roster : Crash(p)
  \/ AdvanceClock(MaxTime)

Spec == Init /\ [][Next]_vars

\* ---------------------------------------------------------------------------
\* SpecStart: three windows opened at the same instant, their start-up,
\* timers and deliveries interleaved freely.
Mesh == {"A", "B", "C"}

NextStart ==
  \/ \E p \in Mesh : now = 0 /\ Construct(p)
  \/ \E p \in Mesh : InitializeNetwork(p)
  \/ \E p \in Mesh : Tick(p)
  \/ \E p \in Mesh : Cleanup(p)
  \/ \E s \in Mesh, r \in Mesh : Deliver(s, r)
  \/ AdvanceClock(StartHorizon)

SpecStart == Init /\ [][NextStart]_vars

\* One window at a time is opened: nobody is between constructor and
\* initializeNetwork, and no message is in flight.
Calm == Quiet /\ \A q \in Peers : phase[q] # "constructed"

\* SpecLeave: A is opened first, B and C one after the other, in either
\* order, at any instant up to JoinBy; a leader may close its window up to
\* instant LeaveBy.  A timer fires once the messages in flight are handled.
NextLeave ==
  \/ \E p \in Mesh : /\ now <= JoinBy * HEARTBEAT_INTERVAL
                     /\ Calm
                     /\ p = "A" \/ Started("A")
                     /\ Construct(p)
  \/ \E p \in Mesh : InitializeNetwork(p)
  \/ \E p \in Mesh : Quiet /\ Tick(p)
  \/ \E p \in Mesh : Quiet /\ Cleanup(p)
  \/ \E s \in Mesh, r \in Mesh : Deliver(s, r)
  \/ \E p \in Mesh : /\ now <= LeaveBy * HEARTBEAT_INTERVAL
                     /\ store[p].isLeader /\ network[p]
                     /\ Dispose(p)
  \/ AdvanceClock(LeaveHorizon)

SpecLeave == Init /\ [][NextLeave]_vars

\* SpecSilent: three windows opened one after the other at instant 0, in any
\* order; a leader may die without a GOODBYE up to instant CrashBy.  A timer
\* fires once the messages in flight are handled.
NextSilent ==
  \/ \E p \in Mesh : now = 0 /\ Calm /\ Construct(p)
  \/ \E p \in Mesh : InitializeNetwork(p)
  \/ \E p \in Mesh : Quiet /\ Tick(p)
  \/ \E p \in Mesh : Quiet /\ Cleanup(p)
  \/ \E s \in Mesh, r \in Mesh : Deliver(s, r)
  \/ \E p \in Mesh : now <= CrashBy * HEARTBEAT_INTERVAL /\ store[p].isLeader /\ Crash(p)
  \/ AdvanceClock(SilentHorizon)

SpecSilent == Init /\ [][NextSilent]_vars

\* SpecSplit: A, B, C, D are opened one after the other at instant 0; at
\* instant SplitAt the bus falls into {A, B} and {C, D}; at instant HealAt,
\* more than 11 s later, the groups may be merged.  A timer fires once
\* the messages in flight are handled; until the merge the timers due at one
\* instant fire in the order the windows were opened, after it in any order.
TwoGroups == [p \in Peers |-> IF p \in {"A", "B"} THEN 1 ELSE 2]

InTurn(p) ==
  /\ Quiet
  /\ healedAt = NoTimer => \A q \in Peers : IdRank(q) < IdRank(p) => ~TimerDue(q)

NextSplit ==
  \/ \E p \in Peers : /\ now = 0
                      /\ Calm
                      /\ \A q \in Peers : IdRank(q) < IdRank(p) => Started(q)
                      /\ Construct(p)
  \/ \E p \in Peers : InitializeNetwork(p)
  \/ \E p \in Peers : InTurn(p) /\ Tick(p)
  \/ \E p \in Peers : InTurn(p) /\ Cleanup(p)
  \/ \E s \in Peers, r \in Peers : Deliver(s, r)
  \/ now = SplitAt * HEARTBEAT_INTERVAL /\ Quiet /\ Split(TwoGroups)
  \/ now = HealAt * HEARTBEAT_INTERVAL /\ Quiet /\ Heal
  \/ AdvanceClock(SplitHorizon)

SpecSplit == Init /\ [][NextSplit]_vars

\* SpecEarly: two windows opened at instant 0; dispose() is called at any
\* moment after the constructor, also while the session id is still pending.
\* A timer fires once the messages in flight are handled.
NextEarly ==
  \/ \E p \in Roster : now = 0 /\ Construct(p)
  \/ \E p \in Roster : InitializeNetwork(p)
  \/ \E p \in Roster : Quiet /\ Tick(p)
  \/ \E p \in Roster : Quiet /\ Cleanup(p)
  \/ \E s \in Roster, r \in Roster : Deliver(s, r)
  \/ \E p \in Roster : ~disposed[p] /\ Dispose(p)
  \/ AdvanceClock(EarlyHorizon)

SpecEarly == Init /\ [][NextEarly]_vars

\* SpecStatic: B and C are opened one after the other at instant 0 from one
\* URL, with or without a layout parameter; either may take or drop a static
\* layout of its own (computeWithoutPermission) while the bus is quiet.  A
\* timer fires once the messages in flight are handled.
Pair == {"B", "C"}

NextStatic ==
  \/ \E p \in Pair, param \in UrlParams : now = 0 /\ Calm /\ ConstructFrom(p, param)
  \/ \E p \in Pair : InitializeNetwork(p)
  \/ \E p \in Pair : Quiet /\ Tick(p)
  \/ \E p \in Pair : Quiet /\ Cleanup(p)
  \/ \E s \in Pair, r \in Pair : Deliver(s, r)
  \/ \E p \in Pair : \E layout \in {None, Some(OwnScreenLayout(p))} :
       /\ Quiet /\ Started(p)
       /\ staticLayout[p].engine # layout
       /\ SetStaticLayout(p, layout)
  \/ AdvanceClock(StaticHorizon)

SpecStatic == Init /\ [][NextStatic]_vars

\* ---------------------------------------------------------------------------
\* SpecWorld: SpecStatic, and at any quiet moment the layout system of a
\* leader is asked to recalculate the world twice in succession.
RecalculateWorldTwice(p) ==
  /\ Started(p) /\ health[p] = "ok"
  /\ store[p].isLeader
  /\ \E r1 \in {recalculateWorld(store[p], network[p], staticLayout[p].layout)} :
       \E r2 \in {recalculateWorld(r1.st, network[p], staticLayout[p].layout)} :
         /\ store' = [store EXCEPT ![p] = r2.st]
         /\ net' = Broadcast(net, network, p, r1.out \o r2.out)
         /\ world' = Some([by |-> p,
                           first |-> [layout |-> r1.st.layout, out |-> r1.out],
                           second |-> [layout |-> r2.st.layout, out |-> r2.out]])
  /\ UNCHANGED <<now, phase, health, createdAt, ticksSinceStart, heartbeatTimer,
                 cleanupTimer, network, staticLayout, partition, ticksRun, candSeen,
                 haltedAt, healedAt, disposed, cell, adapter, session, leftOpen,
                 boot, view, jitter>>

NextWorld ==
  \/ \E p \in Pair, param \in UrlParams : now = 0 /\ Calm /\ ConstructFrom(p, param)
  \/ \E p \in Pair : InitializeNetwork(p)
  \/ \E p \in Pair : Quiet /\ Tick(p)
  \/ \E p \in Pair : Quiet /\ Cleanup(p)
  \/ \E s \in Pair, r \in Pair : Deliver(s, r)
  \/ \E p \in Pair : \E layout \in {None, Some(OwnScreenLayout(p))} :
       /\ Quiet /\ Started(p)
       /\ staticLayout[p].engine # layout
       /\ SetStaticLayout(p, layout)
  \/ \E p \in Pair : Quiet /\ RecalculateWorldTwice(p)
  \/ AdvanceClock(WorldHorizon)

SpecWorld == Init /\ [][NextWorld]_vars

\* ---------------------------------------------------------------------------
\* SpecRect: two windows opened at instant 0; at any quiet moment the browser
\* window of either is moved and resized, or moved back.
MovedRect(p) == [x |-> InitialRect(p).x + 50, y |-> 30, w |-> 120, h |-> 80]

\* updateRect(rect)
UpdateRect(p, rect) ==
  /\ Started(p) /\ health[p] = "ok"
  /\ \E ps \in {publishSelf(recalculateLocalView([store[p] EXCEPT !.winRect = rect],
                                                  staticLayout[p].layout),
                             createdAt[p], network[p], now)} :
       IF ps.st.isLeader /\ ~IsSome(staticLayout[p].engine)
       THEN \E rw \in {recalculateWorld(ps.st, network[p], staticLayout[p].layout)} :
              /\ store' = [store EXCEPT ![p] = rw.st]
              /\ net' = Broadcast(net, network, p, ps.out \o rw.out)
       ELSE /\ store' = [store EXCEPT ![p] = ps.st]
            /\ net' = Broadcast(net, network, p, ps.out)
  /\ UNCHANGED <<now, phase, health, createdAt, ticksSinceStart, heartbeatTimer,
                 cleanupTimer, network, staticLayout, partition, ticksRun, candSeen,
                 haltedAt, healedAt, disposed, units>>

NextRect ==
  \/ \E p \in Roster : now = 0 /\ Construct(p)
  \/ \E p \in Roster : InitializeNetwork(p)
  \/ \E p \in Roster : Quiet /\ Tick(p)
  \/ \E p \in Roster : Quiet /\ Cleanup(p)
  \/ \E s \in Roster, r \in Roster : Deliver(s, r)
  \/ \E p \in Roster : \E rect \in {InitialRect(p), MovedRect(p)} :
       Quiet /\ store[p].winRect # rect /\ UpdateRect(p, rect)
  \/ AdvanceClock(RectHorizon)

SpecRect == Init /\ [][NextRect]_vars

\* ---------------------------------------------------------------------------
\* SpecInstalled: A, B, C are opened one after the other from one URL, with
\* or without a layout parameter, at instant 0 or, the last to come, at
\* instant InstalledJoin, when a leader is there; at quiet moments a leader
\* without static layout is given one (setStaticLayout), and one window
\* closes.  The timers due at one instant fire in the order the windows were
\* opened, once the messages in flight are handled.
NextInstalled ==
  \/ \E p \in Mesh, param \in UrlParams :
       /\ now = 0 \/ (now = InstalledJoin * HEARTBEAT_INTERVAL /\ p = "C")
       /\ Calm
       /\ \A q \in Mesh : IdRank(q) < IdRank(p) => Started(q)
       /\ ConstructFrom(p, param)
  \/ \E p \in Mesh : InitializeNetwork(p)
  \/ \E p \in Mesh : InTurn(p) /\ Tick(p)
  \/ \E p \in Mesh : InTurn(p) /\ Cleanup(p)
  \/ \E s \in Mesh, r \in Mesh : Deliver(s, r)
  \/ \E p \in Mesh :
       /\ Quiet /\ Started(p) /\ store[p].isLeader
       /\ ~IsSome(staticLayout[p].engine)
       /\ SetStaticLayout(p, Some(OwnScreenLayout(p)))
  \/ \E p \in Mesh :
       /\ Quiet /\ Started(p) /\ network[p]
       /\ \A q \in Mesh : ~disposed[q]
       /\ Dispose(p)
  \/ AdvanceClock(InstalledHorizon)

SpecInstalled == Init /\ [][NextInstalled]_vars

\* A browser window without height, and one without any size.
FlatRect(p) == [x |-> InitialRect(p).x, y |-> 0, w |-> 100, h |-> 0]
NoRect == [x |-> 0, y |-> 0, w |-> 0, h |-> 0]

\* ---------------------------------------------------------------------------
\* SpecStale: two windows opened at instant 0; one of them dies without a
\* GOODBYE by instant StaleCrashBy; the browser window of the survivor may
\* then be flattened to no height or collapsed to no size.
NextStale ==
  \/ \E p \in Roster : now = 0 /\ Construct(p)
  \/ \E p \in Roster : InitializeNetwork(p)
  \/ \E p \in Roster : Quiet /\ Tick(p)
  \/ \E p \in Roster : Quiet /\ Cleanup(p)
  \/ \E s \in Roster, r \in Roster : Deliver(s, r)
  \/ \E p \in Roster : /\ Quiet /\ now <= StaleCrashBy * HEARTBEAT_INTERVAL
                        /\ \A q \in Roster : Started(q) /\ health[q] = "ok"
                        /\ Crash(p)
  \/ \E p \in Roster : \E rect \in {FlatRect(p), NoRect} :
       /\ Quiet /\ (\E q \in Roster : health[q] = "crashed")
       /\ store[p].winRect = InitialRect(p)
       /\ UpdateRect(p, rect)
  \/ AdvanceClock(StaleHorizon)

SpecStale == Init /\ [][NextStale]_vars

\* ---------------------------------------------------------------------------
\* SpecPoll: A is opened at instant 0, B at instant 0 or at instant PollJoin;
\* the browser window of either may be flattened to no height, once. Timers
\* fire when due and the channel delivers what was sent.
NextPoll ==
  \/ \E p \in Roster : /\ (now = 0 \/ (p = "B" /\ now = PollJoin * HEARTBEAT_INTERVAL))
                        /\ Quiet /\ Construct(p)
  \/ \E p \in Roster : InitializeNetwork(p)
  \/ \E p \in Roster : Quiet /\ Tick(p)
  \/ \E p \in Roster : Quiet /\ Cleanup(p)
  \/ \E s \in Roster, r \in Roster : Deliver(s, r)
  \/ \E p \in Roster : /\ Quiet /\ store[p].winRect = InitialRect(p)
                        /\ UpdateRect(p, FlatRect(p))
  \/ AdvanceClock(PollHorizon)

\* ENABLED <<Quiet /\ Tick(p)>>_vars and ENABLED <<Deliver(s, r)>>_vars: a tick
\* and a delivery always change the state.
TickDue(p) ==
  Quiet /\ health[p] = "ok" /\ heartbeatTimer[p] # NoTimer /\ heartbeatTimer[p] <= now
Deliverable(s, r) == net[<<s, r>>] # <<>> /\ network[r] /\ health[r] # "crashed"

\* Weak fairness of the clock, of the start of the network, and of every
\* timer callback and delivery; for Tick and Deliver it is written out, with
\* the enabling condition above.
SpecPoll ==
  /\ Init /\ [][NextPoll]_vars
  /\ WF_vars(AdvanceClock(PollHorizon))
  /\ \A p \in Roster : WF_vars(InitializeNetwork(p)) /\ WF_vars(Quiet /\ Cleanup(p))
  /\ \A p \in Roster : []<>~TickDue(p) \/ []<><<Quiet /\ Tick(p)>>_vars
  /\ \A s \in Roster, r \in Roster : []<>~Deliverable(s, r) \/ []<><<Deliver(s, r)>>_vars

\* ---------------------------------------------------------------------------
\* SpecView: recalculateLocalView() on a state of its own. The page is opened
\* under a URL with or without ?screenId= and ?screenPosition=; the window id,
\* the window rect, the received layout and the static layout are drawn from
\* small sets.
ViewRects ==
  {[x |-> 100 + 900 * (k - 1), y |-> 50 * (k - 1), w |-> 800 * k, h |-> 600 + 240 * (k - 1)] :
     k \in 1..MaxRects}
Shifted ==
  [v |-> 1, frame |-> [x |-> -1920, y |-> 100, w |-> 5760, h |-> 1080],
   screens |-> <<[id |-> "S2", x |-> -1920, y |-> 100, w |-> 1920, h |-> 1080],
                 [id |-> "S1", x |-> 1920, y |-> 100, w |-> 1920, h |-> 1080]>>]
NoScreens == [v |-> 1, frame |-> [x |-> 0, y |-> 0, w |-> 0, h |-> 0], screens |-> <<>>]
ViewLayouts == {None, Some(SideBySide), Some(Shifted), Some(NoScreens)}
UrlScreenIds == {Undefined, "S1", "S2", "S3"}
UrlScreenPositions == {None, Some([x |-> 200, y |-> 150]), Some([x |-> 0, y |-> 0])}

\* The page is opened under a URL with these parameters.
OpenUnder(id, pos) ==
  /\ view = None
  /\ boot' = [screenId |-> id, screenPosition |-> pos]
  /\ UNCHANGED <<now, phase, health, createdAt, store, ticksSinceStart, heartbeatTimer,
                 cleanupTimer, network, staticLayout, net, partition, ticksRun, candSeen,
                 haltedAt, healedAt, disposed, cell, adapter, session, world, leftOpen, view,
                 jitter>>

\* recalculateLocalView() on the state of window w at rect with this layout,
\* sl being the layout system's static layout.
RecalculateLocalView(w, rect, layout, sl) ==
  /\ \E st \in {InitialState(w, rect, layout)} :
       view' = Some([st |-> st, sl |-> sl, out |-> recalculateLocalView(st, sl)])
  /\ UNCHANGED <<now, phase, health, createdAt, store, ticksSinceStart, heartbeatTimer,
                 cleanupTimer, network, staticLayout, net, partition, ticksRun, candSeen,
                 haltedAt, healedAt, disposed, cell, adapter, session, world, leftOpen, boot,
                 jitter>>

NextView ==
  \/ \E id \in UrlScreenIds, pos \in UrlScreenPositions : OpenUnder(id, pos)
  \/ \E w \in Roster, rect \in ViewRects, layout \in ViewLayouts,
         sl \in {None, Some(SideBySide)} : RecalculateLocalView(w, rect, layout, sl)

SpecView == Init /\ [][NextView]_vars

\* ---------------------------------------------------------------------------
\* SpecJitter: LAYOUT_UPDATE events handed to the handler of one window in
\* any order, as Scenario 13 does. Grown(k) is the layout a leader computes
\* once k windows of 100 x 100 stand side by side; Grown(0) is the layout
\* without screens Scenario 13 starts from.
Grown(k) ==
  [v |-> 1, frame |-> [x |-> 0, y |-> 0, w |-> 100 * Max2(k, 1), h |-> 100],
   screens |-> [i \in 1..k |-> [id |-> IF i = 1 THEN "A" ELSE IF i = 2 THEN "B" ELSE "C",
                                x |-> 100 * (i - 1), y |-> 0, w |-> 100, h |-> 100]]]

\* Window B before any layout reached it, as a follower or as a leader.
Begin(isLeader) ==
  /\ jitter = None
  /\ jitter' = Some([st |-> [InitialState("B", InitialRect("B"), None)
                               EXCEPT !.isLeader = isLeader],
                     handled |-> <<>>])
  /\ UNCHANGED <<now, phase, health, createdAt, store, ticksSinceStart, heartbeatTimer,
                 cleanupTimer, network, staticLayout, net, partition, ticksRun, candSeen,
                 haltedAt, healedAt, disposed, cell, adapter, session, world, leftOpen, boot,
                 view>>

HandleLayoutUpdateOnce(layout) ==
  /\ IsSome(jitter)
  /\ Len(The(jitter).handled) < MaxUpdates
  /\ jitter' = Some([st |-> IF IsSome(The(jitter).st.layout) THEN The(jitter).st
                            ELSE handleMessage(The(jitter).st, LayoutUpdate(layout), now, None).st,
                     handled |-> Append(The(jitter).handled, layout)])
  /\ UNCHANGED <<now, phase, health, createdAt, store, ticksSinceStart, heartbeatTimer,
                 cleanupTimer, network, staticLayout, net, partition, ticksRun, candSeen,
                 haltedAt, healedAt, disposed, cell, adapter, session, world, leftOpen, boot,
                 view>>
\* networkSystem.handleMessage({ type: "LAYOUT_UPDATE", payload: layout })
HandleLayoutUpdate(layout) ==
  /\ IsSome(jitter)
  /\ Len(The(jitter).handled) < MaxUpdates
  /\ jitter' = Some([st |-> handleMessage(The(jitter).st, LayoutUpdate(layout), now, None).st,
                     handled |-> Append(The(jitter).handled, layout)])
  /\ UNCHANGED <<now, phase, health, createdAt, store, ticksSinceStart, heartbeatTimer,
                 cleanupTimer, network, staticLayout, net, partition, ticksRun, candSeen,
                 haltedAt, healedAt, disposed, cell, adapter, session, world, leftOpen, boot,
                 view>>

NextJitter ==
  \/ \E isLeader \in BOOLEAN : Begin(isLeader)
  \/ \E k \in 0..MaxVersions : HandleLayoutUpdate(Grown(k))

SpecJitter == Init /\ [][NextJitter]_vars

\* ---------------------------------------------------------------------------
\* SpecThrown: two windows opened at instant 0; at any quiet moment one of them
\* is disposed while its channel refuses the GOODBYE.
NextThrown ==
  \/ \E p \in Roster : now = 0 /\ Construct(p)
  \/ \E p \in Roster : InitializeNetwork(p)
  \/ \E p \in Roster : Quiet /\ Tick(p)
  \/ \E p \in Roster : Quiet /\ Cleanup(p)
  \/ \E s \in Roster, r \in Roster : Deliver(s, r)
  \/ \E s \in Roster, r \in Roster : DeliverLeftOpen(s, r)
  \/ \E p \in Roster : Quiet /\ Started(p) /\ (\A q \in Roster : ~disposed[q])
                        /\ DisposeThrowing(p)
  \/ AdvanceClock(ThrownHorizon)

SpecThrown == Init /\ [][NextThrown]_vars

\* ---------------------------------------------------------------------------
\* SpecFlat: two windows opened at instant 0; at any quiet moment the browser
\* window of either is flattened to no height, collapsed to no size, or
\* restored.
NextFlat ==
  \/ \E p \in Roster : now = 0 /\ Construct(p)
  \/ \E p \in Roster : InitializeNetwork(p)
  \/ \E p \in Roster : Quiet /\ Tick(p)
  \/ \E p \in Roster : Quiet /\ Cleanup(p)
  \/ \E s \in Roster, r \in Roster : Deliver(s, r)
  \/ \E p \in Roster : \E rect \in {InitialRect(p), FlatRect(p), NoRect} :
       Quiet /\ store[p].winRect # rect /\ UpdateRect(p, rect)
  \/ AdvanceClock(FlatHorizon)

SpecFlat == Init /\ [][NextFlat]_vars

\* ------------------------------------------------------------------ claims
\* p runs: started, not disposed, not crashed.
Running(p) == Started(p) /\ network[p] /\ health[p] # "crashed"
Me(p) == store[p].windowId

\* C3: no election runs in a window's first 3 heartbeat ticks: isLeader stays
\* false and leaderId unset through ticks 1..3, whatever peers it knows; a
\* window that knows no other peer has isLeader = true and leaderId = its own
\* id once its 4th tick has run.
C3_GracePeriod ==
  \A p \in Peers :
    /\ ticksRun[p] <= STARTUP_GRACE_PERIOD_TICKS =>
         ~store[p].isLeader /\ store[p].leaderId = Undefined
    /\ (ticksRun[p] = STARTUP_GRACE_PERIOD_TICKS + 1 /\ candSeen[p].known \subseteq {Me(p)}) =>
         store[p].isLeader /\ store[p].leaderId = Me(p)

\* A lone window right after its 4th tick, leader; and a window that has run
\* 3 ticks knowing an older peer.
C3_Witness ==
  /\ \E p \in Peers : ticksRun[p] = STARTUP_GRACE_PERIOD_TICKS + 1
                      /\ Keys(store[p].windows) = {Me(p)} /\ store[p].isLeader
  /\ \E q \in Peers : ticksRun[q] = STARTUP_GRACE_PERIOD_TICKS
                      /\ Cardinality(Keys(store[q].windows)) > 1

\* C10: dispose() on a started engine clears both timers, broadcasts exactly
\* one GOODBYE with the window's own id to every peer on the channel and
\* closes the transport; dispose() on an engine already disposed changes
\* nothing and broadcasts nothing.
C10_Dispose ==
  [][\A p \in Peers :
       Dispose(p) =>
         IF Started(p) /\ network[p]
         THEN /\ heartbeatTimer'[p] = NoTimer
              /\ cleanupTimer'[p] = NoTimer
              /\ ~network'[p]
              /\ \A r \in Peers \ {p} :
                   net'[<<p, r>>] =
                     IF network[r] /\ health[r] # "crashed" /\ partition[r] = partition[p]
                     THEN Append(net[<<p, r>>], Goodbye(Me(p)))
                     ELSE net[<<p, r>>]
              /\ store' = store
         ELSE IF Started(p) /\ heartbeatTimer[p] = NoTimer /\ cleanupTimer[p] = NoTimer
              THEN UNCHANGED vars
              ELSE TRUE]_vars

\* A started window has been disposed and its GOODBYE is on its way to a peer.
C10_Witness ==
  \E p \in Peers, r \in Peers :
    /\ Started(p) /\ ~network[p] /\ health[p] = "ok"
    /\ heartbeatTimer[p] = NoTimer /\ cleanupTimer[p] = NoTimer
    /\ net[<<p, r>>] # <<>>
    /\ net[<<p, r>>][Len(net[<<p, r>>])] = Goodbye(Me(p))

\* The ids of the screens of p's layout; empty while it holds no layout.
LayoutIds(p) ==
  IF IsSome(store[p].layout)
  THEN {The(store[p].layout).screens[i].id : i \in 1..Len(The(store[p].layout).screens)}
  ELSE {}
LayoutLen(p) == IF IsSome(store[p].layout) THEN Len(The(store[p].layout).screens) ELSE 0

\* C5: a settled leader a whose timers no longer fire still handles inbound
\* messages; a newcomer b that started after a was throttled and has run no
\* tick holds, once its start-up REQUEST_LAYOUT and HEARTBEAT are handled and
\* the replies delivered, a layout with exactly the screens of a and b.
C5_ThrottledLeader ==
  \A a \in Peers, b \in Peers :
    (/\ a # b
     /\ health[a] = "throttled" /\ network[a] /\ store[a].isLeader
     /\ Running(b) /\ ticksRun[b] = 0
     /\ heartbeatTimer[b] - HEARTBEAT_INTERVAL >= haltedAt[a]
     /\ net[<<b, a>>] = <<>> /\ net[<<a, b>>] = <<>>)
    => /\ LayoutIds(b) = {Me(a), Me(b)}
       /\ LayoutLen(b) = 2

\* The newcomer opened a full interval after the leader was throttled and has
\* its layout before any tick.
C5_Witness ==
  \E a \in Peers, b \in Peers :
    /\ a # b
    /\ health[a] = "throttled" /\ network[a] /\ store[a].isLeader
    /\ Running(b) /\ ticksRun[b] = 0
    /\ heartbeatTimer[b] - HEARTBEAT_INTERVAL > haltedAt[a]
    /\ ticksRun[a] = STARTUP_GRACE_PERIOD_TICKS + 1
    /\ net[<<b, a>>] = <<>> /\ net[<<a, b>>] = <<>>
    /\ LayoutIds(b) = {Me(a), Me(b)}

\* p runs and its timers fire.
Alive(p) == Running(p) /\ health[p] = "ok"
\* c precedes or equals d in the election order: createdAt ascending, id ascending.
Precedes(c, d) ==
  \/ c.createdAt < d.createdAt
  \/ c.createdAt = d.createdAt /\ IdRank(c.id) <= IdRank(d.id)
\* The window among ids that was created first, ties to the smaller id.
Oldest(ids) ==
  CHOOSE m \in ids : \A q \in ids :
    Precedes([createdAt |-> createdAt[m], id |-> m], [createdAt |-> createdAt[q], id |-> q])

\* C1: once every running window is past its grace period and the latest
\* election of each saw the same set of live peers, with no message in
\* flight, at most one window has isLeader = true, and it is the one with the
\* smallest (createdAt, id) of that set.
C1_SingleLeader ==
  (/\ Quiet
   /\ \A p \in Peers : Running(p) => Alive(p) /\ candSeen[p].elected
   /\ \A p \in Peers, q \in Peers :
        Running(p) /\ Running(q) => candSeen[p].cand = candSeen[q].cand)
  => /\ \A p \in Peers : Running(p) => (store[p].isLeader <=> p = Oldest(candSeen[p].cand))
     /\ Cardinality({p \in Peers : Running(p) /\ store[p].isLeader}) <= 1

\* Two or more windows agree on a live set in which the oldest window is not
\* the one with the smallest id, and that window leads.
C1_Witness ==
  /\ Quiet
  /\ Cardinality({p \in Peers : Running(p)}) >= 2
  /\ \A p \in Peers : Running(p) =>
       /\ candSeen[p].elected
       /\ candSeen[p].cand = {q \in Peers : Running(q)}
  /\ \E p \in Peers, q \in Peers :
       Running(p) /\ Running(q) /\ store[p].isLeader /\ IdRank(q) < IdRank(p)

\* The snapshot of itself a window hands to selectLeader at the clock now.
Myself(p) ==
  [id |-> Me(p), createdAt |-> createdAt[p], lastSeen |-> now, rect |-> store[p].winRect,
   timestamp |-> now]
\* The candidates of p at the clock now: the peers seen within the timeout,
\* and p itself, as (id, createdAt).
Candidates(p) ==
  {[id |-> store[p].windows[i].id, createdAt |-> store[p].windows[i].createdAt] :
     i \in {j \in 1..Len(store[p].windows) : now - store[p].windows[j].lastSeen < WINDOW_TIMEOUT}}
  \cup {[id |-> Me(p), createdAt |-> createdAt[p]]}
Chosen(p) == selectLeader(store[p].windows, Myself(p), WINDOW_TIMEOUT, now)

\* C2: selectLeader returns the id of the minimum, under (createdAt
\* ascending, id ascending), of the peers with now - lastSeen < timeout united
\* with the caller; isMe holds exactly when that id is the caller's; two
\* windows with the same candidate set get the same leaderId.
C2_SelectLeader ==
  /\ \A p \in Peers : Alive(p) =>
       /\ \E c \in Candidates(p) :
            /\ \A d \in Candidates(p) : Precedes(c, d)
            /\ Chosen(p).leaderId = c.id
       /\ Chosen(p).isMe <=> Chosen(p).leaderId = Me(p)
  /\ \A p \in Peers, q \in Peers :
       Alive(p) /\ Alive(q) /\ Candidates(p) = Candidates(q)
         => Chosen(p).leaderId = Chosen(q).leaderId

\* A window still holds the entry of a peer that timed out, older than every
\* candidate, and chooses among two live candidates.
C2_Witness ==
  \E p \in Peers :
    /\ Alive(p)
    /\ Cardinality(Candidates(p)) = 2
    /\ \E i \in 1..Len(store[p].windows) :
         /\ now - store[p].windows[i].lastSeen >= WINDOW_TIMEOUT
         /\ \A c \in Candidates(p) :
              Precedes([id |-> store[p].windows[i].id,
                        createdAt |-> store[p].windows[i].createdAt], c)
    /\ Chosen(p).leaderId # Me(p)

\* C4: three windows start at the same instant; once each has run its 4th
\* tick and no message is in flight, exactly one window has isLeader = true,
\* the one with the smallest (createdAt, id), and the layout of every window
\* holds exactly one screen per window.
C4_ConcurrentStart ==
  (/\ Quiet
   /\ \A p \in Mesh : Alive(p) /\ ticksRun[p] >= STARTUP_GRACE_PERIOD_TICKS + 1)
  => /\ \A p \in Mesh : store[p].isLeader <=> p = Oldest(Mesh)
     /\ \A p \in Mesh : LayoutIds(p) = Mesh /\ LayoutLen(p) = Cardinality(Mesh)

\* All three have just run their 4th tick, the bus is quiet, A leads.
C4_Witness ==
  /\ Quiet
  /\ \A p \in Mesh : Alive(p) /\ ticksRun[p] = STARTUP_GRACE_PERIOD_TICKS + 1
  /\ store["A"].isLeader
  /\ \A p \in Mesh : LayoutLen(p) = 3

\* d was the leader and closed its window.
DepartedLeader(d) == Started(d) /\ ~network[d] /\ health[d] = "ok" /\ store[d].isLeader
\* r handles the GOODBYE of d in this step.
HandlesGoodbye(d, r) ==
  /\ net[<<d, r>>] # <<>>
  /\ Head(net[<<d, r>>]).type = "GOODBYE"
  /\ net'[<<d, r>>] = Tail(net[<<d, r>>])
  /\ store'[r] # store[r]

\* C6 as claimed: the leader of three windows closes; as soon as a survivor
\* has handled the GOODBYE, before any further tick, the survivor's layout no
\* longer holds the departed leader's screen.
C6_AsClaimed ==
  [][\A d \in Peers, r \in Peers :
       DepartedLeader(d) /\ HandlesGoodbye(d, r) /\ LayoutLen(r) = 3 =>
         ~(Me(d) \in LayoutIds(r)')]_vars

\* C6: the leader closes; a survivor that handles the GOODBYE drops the
\* departed leader from its windows map, and, being no leader, keeps its
\* layout as it was, the departed leader's screen included.
C6_GoodbyeKeepsLayout ==
  [][\A d \in Peers, r \in Peers :
       DepartedLeader(d) /\ HandlesGoodbye(d, r) /\ ~store[r].isLeader =>
         /\ ~(Me(d) \in Keys(store'[r].windows))
         /\ store'[r].layout = store[r].layout]_vars

\* A survivor of three has handled the leader's GOODBYE and still holds the
\* layout of three screens, the departed leader's among them.
C6_Witness ==
  \E d \in Peers, r \in Peers :
    /\ DepartedLeader(d) /\ Alive(r)
    /\ net[<<d, r>>] = <<>>
    /\ ~(Me(d) \in Keys(store[r].windows))
    /\ Me(d) \in LayoutIds(r)
    /\ LayoutLen(r) = 3

\* The windows that run.
Survivors == {q \in Peers : Alive(q)}
\* p has handled the GOODBYE of every window that closed.
GoodbyesHandled(p) ==
  \A d \in Peers : Started(d) /\ ~network[d] =>
    net[<<d, p>>] = <<>> /\ ~(Me(d) \in Keys(store[p].windows))
\* p runs a heartbeat tick in this step.
Ticks(p) == ticksRun'[p] = ticksRun[p] + 1
\* The tick of p elects the oldest survivor: p records it as leader, sets
\* isLeader exactly if it is that window, and a window that newly leads
\* recomputes the layout from the windows it knows.
ElectsOldest(p) ==
  /\ store'[p].leaderId = Oldest(Survivors)
  /\ store'[p].isLeader <=> p = Oldest(Survivors)
  /\ (store'[p].isLeader /\ ~store[p].isLeader) => LayoutIds(p)' = Keys(store'[p].windows)
\* Under a leader and with no message in flight every survivor's layout
\* holds exactly the survivors' screens.
SurvivorsLayout ==
  (/\ Quiet
   /\ \E d \in Peers : DepartedLeader(d)
   /\ \E l \in Survivors : store[l].isLeader)
  => \A q \in Survivors : LayoutIds(q) = Survivors /\ LayoutLen(q) = Cardinality(Survivors)

\* C7 as claimed: after the leader's GOODBYE is handled, the next tick of each
\* survivor elects the oldest survivor, and after the new leader's
\* LAYOUT_UPDATE every survivor's layout holds exactly the survivors' screens.
C7_AsClaimed ==
  /\ [][\A p \in Peers :
          (/\ \E d \in Peers : DepartedLeader(d)
           /\ Alive(p) /\ GoodbyesHandled(p) /\ Ticks(p)) => ElectsOldest(p)]_vars
  /\ []SurvivorsLayout

\* C7: after the leader's GOODBYE is handled, the next tick of each survivor
\* that is past its start-up grace period elects the oldest survivor, which
\* newly sets isLeader = true and recomputes the layout when the tick is its
\* own; the others keep isLeader = false; under the new leader, once its
\* LAYOUT_UPDATE is delivered, every survivor's layout holds exactly the
\* survivors' screens.
C7_Failover ==
  /\ [][\A p \in Peers :
          (/\ \E d \in Peers : DepartedLeader(d)
           /\ Alive(p) /\ GoodbyesHandled(p) /\ Ticks(p)
           /\ ~InWarmUp(ticksSinceStart[p])) => ElectsOldest(p)]_vars
  /\ []SurvivorsLayout

\* The leader has left, the oldest survivor leads two survivors, the bus is
\* quiet and the layouts hold two screens.
C7_Witness ==
  /\ Quiet
  /\ \E d \in Peers : DepartedLeader(d)
  /\ Cardinality(Survivors) = 2
  /\ \A q \in Survivors : GoodbyesHandled(q) /\ candSeen[q].elected /\ LayoutLen(q) = 2
  /\ store[Oldest(Survivors)].isLeader

\* The window died at haltedAt without a GOODBYE.
Dead(d) == health[d] = "crashed"
\* Every survivor's cleanup that is due by now has run.
CleanupsDone == \A r \in Survivors : cleanupTimer[r] > now
Forgotten(d) == \A r \in Survivors : ~(Me(d) \in Keys(store[r].windows))

\* C8 as claimed: a leader's heartbeats stop at T without a GOODBYE; every
\* other window has removed it no later than T + 6000 ms.
C8_AsClaimed ==
  \A d \in Peers :
    (Dead(d) /\ now >= haltedAt[d] + WINDOW_TIMEOUT + HEARTBEAT_INTERVAL /\ CleanupsDone)
      => Forgotten(d)

\* C8: a leader's heartbeats stop at T without a GOODBYE; every other window
\* has removed it no later than T + 10000 ms (timeout plus one cleanup
\* interval), and once all have removed it the oldest survivor has
\* isLeader = true.
C8_SilentDeath ==
  \A d \in Peers :
    /\ (Dead(d) /\ now >= haltedAt[d] + WINDOW_TIMEOUT + CLEANUP_INTERVAL /\ CleanupsDone)
         => Forgotten(d)
    /\ (Dead(d) /\ Forgotten(d) /\ Survivors # {}) => store[Oldest(Survivors)].isLeader

\* The leader died right after a heartbeat that fell on a cleanup instant;
\* 10000 ms later the survivors have removed it and the oldest survivor leads.
C8_Witness ==
  \E d \in Peers :
    /\ Dead(d) /\ store[d].isLeader
    /\ now = haltedAt[d] + WINDOW_TIMEOUT + CLEANUP_INTERVAL
    /\ Cardinality(Survivors) = 2
    /\ Forgotten(d)
    /\ store[Oldest(Survivors)].isLeader

\* The instant's work is done: nothing in flight, no timer due.
Settled == Quiet /\ \A p \in Peers : ~TimerDue(p)
\* The groups of four running windows have been merged.
Merged == healedAt # NoTimer /\ \A p \in Peers : Alive(p)
\* The bus has been split into {A, B} and {C, D} for more than 11 s.
LongSplit ==
  /\ \A p \in Peers : Alive(p)
  /\ partition = TwoGroups
  /\ now > (SplitAt + 11) * HEARTBEAT_INTERVAL
SplitLeaders ==
  LongSplit => /\ store["A"].isLeader /\ ~store["B"].isLeader
               /\ store["C"].isLeader /\ ~store["D"].isLeader

\* C9 as claimed: after the merge, within one subsequent heartbeat tick of
\* each window, A is still leader, C has isLeader = false and A's layout has
\* 4 screens.
C9_AsClaimed ==
  /\ SplitLeaders
  /\ (Merged /\ now >= healedAt + HEARTBEAT_INTERVAL /\ Settled)
       => store["A"].isLeader /\ ~store["C"].isLeader /\ LayoutLen("A") = 4

\* C9: after a split into {A, B} and {C, D} of more than 11 s A leads {A, B}
\* and C leads {C, D}; after the merge A is still leader and, within one
\* subsequent tick of each window, A's layout has 4 screens; within two
\* subsequent ticks of each window C has isLeader = false.
C9_SplitBrain ==
  /\ SplitLeaders
  /\ Merged => store["A"].isLeader
  /\ (Merged /\ now >= healedAt + HEARTBEAT_INTERVAL /\ Settled)
       => LayoutLen("A") = 4
  /\ (Merged /\ now >= healedAt + 2 * HEARTBEAT_INTERVAL /\ Settled)
       => ~store["C"].isLeader

\* Two intervals after the merge: A leads with 4 screens, C has stepped down
\* and records A as leader.
C9_Witness ==
  /\ Merged /\ now = healedAt + 2 * HEARTBEAT_INTERVAL /\ Settled
  /\ store["A"].isLeader /\ LayoutLen("A") = 4
  /\ ~store["C"].isLeader /\ store["C"].leaderId = "A"
  /\ candSeen["C"].cand = Peers

\* After dispose() the window is at rest in this step: no timer of it fires or
\* is armed, its store is not written, its adapter is not opened and nothing
\* is broadcast from it.
AtRest(p) ==
  /\ store'[p] = store[p]
  /\ heartbeatTimer'[p] = heartbeatTimer[p]
  /\ cleanupTimer'[p] = cleanupTimer[p]
  /\ ticksRun'[p] = ticksRun[p]
  /\ network'[p] = network[p]
  /\ \A r \in Peers : Len(net'[<<p, r>>]) <= Len(net[<<p, r>>])

\* C11: after dispose() has returned the engine never runs another heartbeat
\* or cleanup tick, never broadcasts another message and never handles another
\* inbound message, whatever the moment of the call, also a call made before
\* the session id derivation started by the constructor has resolved.
C11_AsClaimed ==
  [][\A p \in Peers : disposed[p] => AtRest(p)]_vars

\* What holds of C11: a window disposed after initializeNetwork has run stays
\* at rest.
C11_AfterStart ==
  [][\A p \in Peers : disposed[p] /\ Started(p) /\ ~network[p] => AtRest(p)]_vars

\* ---------------------------------------------------------------------------
\* SpecLag: two windows opened at instant 0; the channel may hold a message
\* back while time passes (a lagging receiver), timers fire on time.  The run
\* ends before the first cleanup interval has elapsed.
Lag(horizon) ==
  /\ now < horizon * HEARTBEAT_INTERVAL
  /\ \A p \in Peers : ~TimerDue(p) /\ phase[p] # "constructed"
  /\ now' = now + HEARTBEAT_INTERVAL
  /\ UNCHANGED <<phase, health, createdAt, store, ticksSinceStart, heartbeatTimer,
                 cleanupTimer, network, staticLayout, net, partition, ticksRun, candSeen,
                 haltedAt, healedAt, disposed, units>>

NextLag ==
  \/ \E p \in Roster : now = 0 /\ Construct(p)
  \/ \E p \in Roster : InitializeNetwork(p)
  \/ \E p \in Roster : Tick(p)
  \/ \E s \in Roster, r \in Roster : Deliver(s, r)
  \/ Lag(LagHorizon)

SpecLag == Init /\ [][NextLag]_vars

\* ---------------------------------------------------------------------------
\* SpecShared: window A opened at instant 0, window B at instant 0 or at
\* ShareAt; from ShareAt on the application calls setSharedData on either
\* window, also on both before either update has arrived.
SharedKeys == {"k1", "k2"}
SharedValues == {1, 2}

\* setSharedData(key, value)
SetSharedData(p, key, value) ==
  /\ phase[p] # "absent"
  /\ health[p] # "crashed"
  /\ store' = [store EXCEPT ![p].sharedData = PutShared(@, key, value)]
  /\ net' = IF network[p] THEN Broadcast(net, network, p, <<SharedDataUpdate(key, value)>>)
            ELSE net
  /\ UNCHANGED <<now, phase, health, createdAt, ticksSinceStart, heartbeatTimer,
                 cleanupTimer, network, staticLayout, partition, ticksRun, candSeen,
                 haltedAt, healedAt, disposed, units>>

\* Nothing p sent is still under way.
AllSent(p) == \A r \in Peers : net[<<p, r>>] = <<>>

\* The instants at which p may be opened.
OpenedAt(p) == IF p = "B" THEN {0, ShareAt * HEARTBEAT_INTERVAL} ELSE {0}

NextShared ==
  \/ \E p \in Roster : now \in OpenedAt(p) /\ Quiet /\ Construct(p)
  \/ \E p \in Roster : InitializeNetwork(p)
  \/ \E p \in Roster : Quiet /\ Tick(p)
  \/ \E p \in Roster : Quiet /\ Cleanup(p)
  \/ \E s \in Roster, r \in Roster : Deliver(s, r)
  \/ \E p \in Roster, key \in SharedKeys, value \in SharedValues :
       /\ now >= ShareAt * HEARTBEAT_INTERVAL
       /\ AllSent(p)
       /\ SetSharedData(p, key, value)
  \/ AdvanceClock(ShareHorizon)

SpecShared == Init /\ [][NextShared]_vars

\* ---------------------------------------------------------------------------
\* SpecConcurrent: two windows opened at instant 0; once both are connected
\* the application calls setSharedData on either, also on both before either
\* update has arrived.
NextConcurrent ==
  \/ \E p \in Roster : now = 0 /\ Construct(p)
  \/ \E p \in Roster : InitializeNetwork(p)
  \/ \E p \in Roster : Quiet /\ Tick(p)
  \/ \E s \in Roster, r \in Roster : Deliver(s, r)
  \/ \E p \in Roster, key \in SharedKeys, value \in SharedValues :
       /\ \A q \in Roster : Started(q) /\ network[q]
       /\ AllSent(p)
       /\ SetSharedData(p, key, value)
  \/ AdvanceClock(ConcurrentHorizon)

SpecConcurrent == Init /\ [][NextConcurrent]_vars

\* ---------------------------------------------------------------------------
\* SpecClaim: two windows opened at instant 0; a LEADER_CLAIM in the name of
\* any window id, older or younger, reaches a running window at any quiet
\* moment (the engine itself never sends one).
ReceiveLeaderClaim(s, r) ==
  /\ s # r
  /\ Started(r) /\ network[r] /\ health[r] # "crashed"
  /\ net' = [net EXCEPT ![<<s, r>>] = Append(@, LeaderClaim(s, now))]
  /\ UNCHANGED <<now, phase, health, createdAt, store, ticksSinceStart, heartbeatTimer,
                 cleanupTimer, network, staticLayout, partition, ticksRun, candSeen,
                 haltedAt, healedAt, disposed, units>>

NextClaim ==
  \/ \E p \in Roster : now = 0 /\ Construct(p)
  \/ \E p \in Roster : InitializeNetwork(p)
  \/ \E p \in Roster : Quiet /\ Tick(p)
  \/ \E p \in Roster : Quiet /\ Cleanup(p)
  \/ \E s \in Peers, r \in Roster : Deliver(s, r)
  \/ \E s \in Peers, r \in Roster : Quiet /\ ReceiveLeaderClaim(s, r)
  \/ AdvanceClock(ClaimHorizon)

SpecClaim == Init /\ [][NextClaim]_vars

\* ---------------------------------------------------------------------------
\* SpecClash: two engines constructed with the same window id on one channel,
\* each at any instant up to ClashStart; the BroadcastChannel hands every
\* message of one to the other.
ClashId == "A"

\* new VirtualEngine(id, initialRect) in the window p.
ConstructAs(p, id) ==
  /\ phase[p] = "absent"
  /\ phase' = [phase EXCEPT ![p] = "constructed"]
  /\ createdAt' = [createdAt EXCEPT ![p] = now]
  /\ store' = [store EXCEPT ![p] = InitialState(id, InitialRect(p), staticLayout[p].engine)]
  /\ UNCHANGED <<now, health, ticksSinceStart, heartbeatTimer, cleanupTimer, network,
                 staticLayout, net, partition, ticksRun, candSeen, haltedAt, healedAt, disposed, units>>

NextClash ==
  \/ \E p \in Roster : now <= ClashStart * HEARTBEAT_INTERVAL /\ ConstructAs(p, ClashId)
  \/ \E p \in Roster : InitializeNetwork(p)
  \/ \E p \in Roster : Tick(p)
  \/ \E p \in Roster : Cleanup(p)
  \/ \E s \in Roster, r \in Roster : Deliver(s, r)
  \/ AdvanceClock(ClashHorizon)

SpecClash == Init /\ [][NextClash]_vars

\* ---------------------------------------------------------------------------
\* SpecStore: one Store; listeners subscribe and unsubscribe between writes,
\* and the application writes with set({count}), set({name}) and update().
Fresh(c) == [c EXCEPT !.calls = <<>>, !.rounds = <<>>, !.failed = FALSE]

Subscribe(l) ==
  /\ cell' = StoreSubscribe(cell, l)
  /\ cell' # cell
  /\ UNCHANGED <<now, phase, health, createdAt, store, ticksSinceStart, heartbeatTimer,
                 cleanupTimer, network, staticLayout, net, partition, ticksRun, candSeen,
                 haltedAt, healedAt, disposed, adapter, session, world, leftOpen,
                 boot, view, jitter>>
Unsubscribe(l) ==
  /\ cell' = StoreUnsubscribe(cell, l)
  /\ cell' # cell
  /\ UNCHANGED <<now, phase, health, createdAt, store, ticksSinceStart, heartbeatTimer,
                 cleanupTimer, network, staticLayout, net, partition, ticksRun, candSeen,
                 haltedAt, healedAt, disposed, adapter, session, world, leftOpen,
                 boot, view, jitter>>
SetCount(v) ==
  /\ cell' = StoreSet(Fresh(cell), [count |-> v])
  /\ UNCHANGED <<now, phase, health, createdAt, store, ticksSinceStart, heartbeatTimer,
                 cleanupTimer, network, staticLayout, net, partition, ticksRun, candSeen,
                 haltedAt, healedAt, disposed, adapter, session, world, leftOpen,
                 boot, view, jitter>>
SetName(n) ==
  /\ cell' = StoreSet(Fresh(cell), [name |-> n])
  /\ UNCHANGED <<now, phase, health, createdAt, store, ticksSinceStart, heartbeatTimer,
                 cleanupTimer, network, staticLayout, net, partition, ticksRun, candSeen,
                 haltedAt, healedAt, disposed, adapter, session, world, leftOpen,
                 boot, view, jitter>>
Update ==
  /\ cell.state.count < MaxCount
  /\ cell' = StoreUpdate(Fresh(cell))
  /\ UNCHANGED <<now, phase, health, createdAt, store, ticksSinceStart, heartbeatTimer,
                 cleanupTimer, network, staticLayout, net, partition, ticksRun, candSeen,
                 haltedAt, healedAt, disposed, adapter, session, world, leftOpen,
                 boot, view, jitter>>

NextStore ==
  \/ \E l \in Listeners : Subscribe(l)
  \/ \E l \in Listeners : Unsubscribe(l)
  \/ \E v \in 0..MaxCount : SetCount(v)
  \/ \E n \in {"test", "updated"} : SetName(n)
  \/ Update

SpecStore == Init /\ [][NextStore]_vars

\* ---------------------------------------------------------------------------
\* SpecAdapter: the NetworkAdapter of window A; handlers are registered and
\* removed, and the channel raises message events with any data.  The
\* engine's handler runs EngineNetwork.handleMessage on the store of A.
EngineHears(a) == \E i \in 1..Len(a.calls) : a.calls[i].handler = "engine"

OnMessage(h) ==
  /\ adapter' = onMessage(adapter, h)
  /\ adapter' # adapter
  /\ UNCHANGED <<now, phase, health, createdAt, store, ticksSinceStart, heartbeatTimer,
                 cleanupTimer, network, staticLayout, net, partition, ticksRun, candSeen,
                 haltedAt, healedAt, disposed, cell, session, world, leftOpen,
                 boot, view, jitter>>
OffMessage(h) ==
  /\ adapter' = offMessage(adapter, h)
  /\ adapter' # adapter
  /\ UNCHANGED <<now, phase, health, createdAt, store, ticksSinceStart, heartbeatTimer,
                 cleanupTimer, network, staticLayout, net, partition, ticksRun, candSeen,
                 haltedAt, healedAt, disposed, cell, session, world, leftOpen,
                 boot, view, jitter>>
MessageEvent(data) ==
  /\ phase["A"] # "absent"
  /\ adapter.received < MaxInbound
  /\ \E a \in {adapterHandleMessage([adapter EXCEPT !.calls = <<>>, !.failed = FALSE], data)} :
       /\ adapter' = [a EXCEPT !.last = data, !.received = @ + 1]
       /\ IF EngineHears(a)
          THEN \E h \in {handleMessage(store["A"], data, now, staticLayout["A"].layout)} :
                 /\ store' = [store EXCEPT !["A"] = h.st]
                 /\ net' = Broadcast(net, network, "A", h.out)
          ELSE UNCHANGED <<store, net>>
  /\ UNCHANGED <<now, phase, health, createdAt, ticksSinceStart, heartbeatTimer,
                 cleanupTimer, network, staticLayout, partition, ticksRun, candSeen,
                 haltedAt, healedAt, disposed, cell, session, world, leftOpen,
                 boot, view, jitter>>

NextAdapter ==
  \/ Construct("A")
  \/ \E h \in Handlers : OnMessage(h)
  \/ \E h \in Handlers : OffMessage(h)
  \/ \E data \in Inbounds : MessageEvent(data)

SpecAdapter == Init /\ [][NextAdapter]_vars

\* ---------------------------------------------------------------------------
\* SpecSession: two tabs boot, each with any of the layout strings, and
\* compute their session id, the name of the channel they join.
BootWith(p, layoutString) ==
  /\ session' = [session EXCEPT ![p] = [layoutString |-> layoutString,
                                        sessionId |-> generateSessionId(layoutString)]]
  /\ session' # session
  /\ UNCHANGED <<now, phase, health, createdAt, store, ticksSinceStart, heartbeatTimer,
                 cleanupTimer, network, staticLayout, net, partition, ticksRun, candSeen,
                 haltedAt, healedAt, disposed, cell, adapter, world, leftOpen,
                 boot, view, jitter>>

NextSession == \E p \in Tabs, layoutString \in LayoutStrings : BootWith(p, layoutString)

SpecSession == Init /\ [][NextSession]_vars

\* The layout has at least one screen, every screen a positive size, and its
\* frame is the bounding box of its screens.
WellFormed(layout) ==
  /\ Len(layout.screens) >= 1
  /\ \A i \in 1..Len(layout.screens) : layout.screens[i].w > 0 /\ layout.screens[i].h > 0
  /\ layout.frame = unionRects(layout.screens)

\* C12: every layout held in a window's store, computed locally, installed as
\* static layout or received in a LAYOUT_UPDATE, has a non-empty list of
\* screens of positive width and height and a frame equal to the bounding box
\* of its screens.
C12_AsClaimed ==
  \A p \in Peers : IsSome(store[p].layout) => WellFormed(The(store[p].layout))

\* What holds of C12: the layouts of a session whose URL carries no layout
\* with a frame of its own are well formed.
C12_Computed ==
  \A p \in Peers :
    IsSome(store[p].layout) /\ staticLayout[p].lifecycle # Some(Cropped)
      => WellFormed(The(store[p].layout))

\* The layout the local view of p is computed from: the static layout of the
\* layout system if it holds one, else the layout of the store.
ActiveLayout(p) ==
  IF IsSome(staticLayout[p].layout) THEN staticLayout[p].layout ELSE store[p].layout
\* viewportOffset of p is virtualRect minus the origin of layout's frame.
OffsetFrom(p, layout) ==
  store[p].viewportOffset =
    [x |-> The(store[p].virtualRect).x - layout.frame.x,
     y |-> The(store[p].virtualRect).y - layout.frame.y]

\* C13: whenever layout and virtualRect of a store are both set,
\* viewportOffset = virtualRect origin - origin of the frame of the layout
\* held in the store.
C13_AsClaimed ==
  \A p \in Peers :
    IsSome(store[p].layout) /\ IsSome(store[p].virtualRect)
      => OffsetFrom(p, The(store[p].layout))

\* What holds of C13: whenever virtualRect is set, viewportOffset is
\* virtualRect origin - origin of the frame of the active layout.
C13_ViewportOffset ==
  \A p \in Peers :
    IsSome(ActiveLayout(p)) /\ IsSome(store[p].virtualRect)
      => OffsetFrom(p, The(ActiveLayout(p)))

\* r handles a LAYOUT_UPDATE of s in this step.
HandlesLayoutUpdate(s, r) ==
  /\ net[<<s, r>>] # <<>>
  /\ Head(net[<<s, r>>]).type = "LAYOUT_UPDATE"
  /\ net'[<<s, r>>] = Tail(net[<<s, r>>])
  /\ network[r] /\ phase'[r] = phase[r] /\ disposed'[r] = disposed[r]
\* The store of r with layout replaced by the payload and the local view
\* computed from active.
Replaced(r, payload, active) ==
  ViewOf([store[r] EXCEPT !.layout = Some(payload)], active)

\* C18: a window that is no leader replaces its layout by the
\* payload of a LAYOUT_UPDATE and recomputes assignedScreenId, virtualRect and
\* viewportOffset from the payload; a leader leaves its store unchanged.
C18_AsClaimed ==
  [][\A s \in Peers, r \in Peers :
       HandlesLayoutUpdate(s, r) =>
         store'[r] = IF store[r].isLeader THEN store[r]
                     ELSE Replaced(r, Head(net[<<s, r>>]).payload,
                                   Some(Head(net[<<s, r>>]).payload))]_vars

\* What holds of C18: the view is recomputed from the static layout if the
\* window holds one, else from the payload.
C18_LayoutUpdate ==
  [][\A s \in Peers, r \in Peers :
       HandlesLayoutUpdate(s, r) =>
         store'[r] = IF store[r].isLeader THEN store[r]
                     ELSE Replaced(r, Head(net[<<s, r>>]).payload,
                                   IF IsSome(staticLayout[r].layout)
                                   THEN staticLayout[r].layout
                                   ELSE Some(Head(net[<<s, r>>]).payload))]_vars

\* The messages p queues for r in this step.
Sent(p, r) ==
  IF Len(net'[<<p, r>>]) > Len(net[<<p, r>>])
  THEN SubSeq(net'[<<p, r>>], Len(net[<<p, r>>]) + 1, Len(net'[<<p, r>>]))
  ELSE <<>>

\* C19: a LAYOUT_UPDATE is only ever broadcast by a window whose isLeader is
\* true at the moment of the broadcast, over every sequence of ticks, inbound
\* messages and public operations.
C19_AsClaimed ==
  [][\A p \in Peers, r \in Peers :
       (\E i \in 1..Len(Sent(p, r)) : Sent(p, r)[i].type = "LAYOUT_UPDATE")
         => store'[p].isLeader]_vars

\* r handles a HELLO or HEARTBEAT of s in this step.
HandlesHeartbeat(s, r) ==
  /\ s # r
  /\ net[<<s, r>>] # <<>>
  /\ Head(net[<<s, r>>]).type \in {"HELLO", "HEARTBEAT"}
  /\ net'[<<s, r>>] = Tail(net[<<s, r>>])
  /\ network[r] /\ phase'[r] = phase[r] /\ disposed'[r] = disposed[r]

\* C14: every reception of a HELLO or HEARTBEAT of q sets p's lastSeen of q to
\* p's own clock at that moment, whatever lastSeen the payload carried, and
\* keeps the other fields of the payload; the lastSeen p holds of q never
\* decreases from one reception to the next.
C14_LastSeen ==
  [][\A q \in Peers, p \in Peers :
       HandlesHeartbeat(q, p) =>
         /\ HasKey(store'[p].windows, q)
         /\ Lookup(store'[p].windows, q) = [Head(net[<<q, p>>]).payload EXCEPT !.lastSeen = now]
         /\ HasKey(store[p].windows, q) =>
              Lookup(store'[p].windows, q).lastSeen >= Lookup(store[p].windows, q).lastSeen]_vars

\* p has handled a heartbeat of q that was sent at an earlier instant, after
\* an earlier reception from q.
C14_Witness ==
  \E q \in Peers, p \in Peers :
    /\ q # p /\ HasKey(store[p].windows, q)
    /\ Lookup(store[p].windows, q).timestamp >= HEARTBEAT_INTERVAL
    /\ Lookup(store[p].windows, q).lastSeen > Lookup(store[p].windows, q).timestamp

\* The keys of the shared map sd, and the value it holds for key.
KeysOf(sd) == {sd[i].key : i \in 1..Len(sd)}
ValueOf(sd, key) == sd[CHOOSE i \in 1..Len(sd) : sd[i].key = key].value
\* The shared map after holds value for key and is before for every other key.
OnlyKeySet(before, after, key, value) ==
  /\ KeysOf(after) = KeysOf(before) \cup {key}
  /\ Len(after) = Cardinality(KeysOf(after))
  /\ ValueOf(after, key) = value
  /\ \A k \in KeysOf(before) \ {key} : ValueOf(after, k) = ValueOf(before, k)
\* Of the store of p nothing but sharedData changes in this step.
OnlySharedDataChanges(p) ==
  [store'[p] EXCEPT !.sharedData = store[p].sharedData] = store[p]
\* The adapter of r is open and on the partition of p.
Hears(r, p) ==
  r # p /\ network[r] /\ health[r] # "crashed" /\ partition[r] = partition[p]
\* r handles a SHARED_DATA_UPDATE of s in this step.
HandlesSharedData(s, r) ==
  /\ s # r
  /\ net[<<s, r>>] # <<>>
  /\ Head(net[<<s, r>>]).type = "SHARED_DATA_UPDATE"
  /\ net'[<<s, r>>] = Tail(net[<<s, r>>])
  /\ network[r] /\ store'[s] = store[s] /\ disposed'[r] = disposed[r]
\* What the handler of SHARED_DATA_UPDATE does to the store of r.
SharedDataHandled(s, r) ==
  HandlesSharedData(s, r) =>
    /\ OnlyKeySet(store[r].sharedData, store'[r].sharedData,
                  Head(net[<<s, r>>]).payload.key, Head(net[<<s, r>>]).payload.value)
    /\ OnlySharedDataChanges(r)
    /\ \A q \in Peers : Sent(r, q) = <<>>
\* What setSharedData(key, value) does to the store of p.
WrittenLocally(p, key, value) ==
  /\ OnlyKeySet(store[p].sharedData, store'[p].sharedData, key, value)
  /\ OnlySharedDataChanges(p)
  /\ \A q \in Peers \ {p} : store'[q] = store[q]

C16_AsClaimed ==
  Quiet =>
    \A p \in Peers, q \in Peers :
      Running(p) /\ Running(q) =>
        \A key \in KeysOf(store[p].sharedData) \cap KeysOf(store[q].sharedData) :
          ValueOf(store[p].sharedData, key) = ValueOf(store[q].sharedData, key)

\* r handles a REQUEST_LAYOUT of s in this step.
HandlesRequestLayout(s, r) ==
  /\ s # r
  /\ net[<<s, r>>] # <<>>
  /\ Head(net[<<s, r>>]).type = "REQUEST_LAYOUT"
  /\ net'[<<s, r>>] = Tail(net[<<s, r>>])
  /\ network[r] /\ store'[s] = store[s] /\ disposed'[r] = disposed[r]
RECURSIVE AfterDelivery(_, _, _)
\* The shared map sd of a window once it has handled msgs from i on.
AfterDelivery(sd, msgs, i) ==
  IF i > Len(msgs) THEN sd
  ELSE AfterDelivery(IF msgs[i].type = "SHARED_DATA_UPDATE"
                     THEN PutShared(sd, msgs[i].payload.key, msgs[i].payload.value)
                     ELSE sd, msgs, i + 1)
\* msgs is a LAYOUT_UPDATE of layout followed by one SHARED_DATA_UPDATE for
\* every entry of sd.
LayoutThenEveryEntry(msgs, layout, sd) ==
  /\ Len(msgs) = 1 + Len(sd)
  /\ msgs[1] = [type |-> "LAYOUT_UPDATE", payload |-> layout]
  /\ \A key \in KeysOf(sd) :
       Cardinality({i \in 2..Len(msgs) :
                     msgs[i] = [type |-> "SHARED_DATA_UPDATE",
                                payload |-> [key |-> key, value |-> ValueOf(sd, key)]]}) = 1
\* The map after holds every key of sd with the value of sd.
Covers(after, sd) ==
  \A key \in KeysOf(sd) : key \in KeysOf(after) /\ ValueOf(after, key) = ValueOf(sd, key)

HandlesLeaderClaim(s, r) ==
  /\ s # r
  /\ net[<<s, r>>] # <<>>
  /\ Head(net[<<s, r>>]).type = "LEADER_CLAIM"
  /\ net'[<<s, r>>] = Tail(net[<<s, r>>])
  /\ network[r] /\ disposed'[r] = disposed[r]
\* p precedes every candidate it sees within the timeout.
OldestCandidate(p) ==
  \A c \in Candidates(p) : Precedes([createdAt |-> createdAt[p], id |-> Me(p)], c)
\* p has stood down on a LEADER_CLAIM: it still records itself as leader.
StoodDownOnClaim(p) ==
  Running(p) /\ ~store[p].isLeader /\ store[p].leaderId = Me(p)

\* C20: handling LEADER_CLAIM sets isLeader to false whatever the claimant's id
\* or age and changes no other field; if the receiver is still the oldest
\* live candidate, its next heartbeat tick past the grace period sets
\* isLeader = true again and recomputes the layout.
C20_LeaderClaim ==
  [][/\ \A s \in Peers, r \in Peers :
          HandlesLeaderClaim(s, r) =>
            /\ ~store'[r].isLeader
            /\ [store'[r] EXCEPT !.isLeader = store[r].isLeader] = store[r]
            /\ \A q \in Peers : Sent(r, q) = <<>>
     /\ \A p \in Peers :
          (/\ Ticks(p) /\ StoodDownOnClaim(p)
           /\ ticksSinceStart[p] >= STARTUP_GRACE_PERIOD_TICKS
           /\ OldestCandidate(p)) =>
            /\ store'[p].isLeader /\ store'[p].leaderId = Me(p)
            /\ LayoutIds(p)' = Keys(store'[p].windows)
            /\ \A q \in Peers :
                 Hears(q, p) => Sent(p, q)[Len(Sent(p, q))] = LayoutUpdate(The(store'[p].layout))]_vars

\* The oldest window, past its grace period and holding the layout it
\* computed as leader, has stood down on the claim of a younger window.
C20_Witness ==
  \E p \in Peers, q \in Peers :
    /\ StoodDownOnClaim(p) /\ Running(q) /\ p = Oldest({p, q}) /\ p # q
    /\ ticksSinceStart[p] >= STARTUP_GRACE_PERIOD_TICKS
    /\ LayoutLen(p) = 2 /\ OldestCandidate(p)
    /\ now = ClaimHorizon * HEARTBEAT_INTERVAL

\* r handles a HELLO, HEARTBEAT or REQUEST_LAYOUT of s in this step.
HandlesEcho(s, r) ==
  /\ s # r
  /\ net[<<s, r>>] # <<>>
  /\ Head(net[<<s, r>>]).type \in {"HELLO", "HEARTBEAT", "REQUEST_LAYOUT"}
  /\ net'[<<s, r>>] = Tail(net[<<s, r>>])
  /\ network[r] /\ disposed'[r] = disposed[r]
\* p and q are different engines with one window id.
Twins(p, q) == p # q /\ phase[p] # "absent" /\ phase[q] # "absent" /\ Me(p) = Me(q)

\* C21: two windows started with the same id never record each other: each
\* ignores the other's HELLO/HEARTBEAT and REQUEST_LAYOUT as a self-echo and
\* leaves its store unchanged, so after the grace period both have
\* isLeader = true and the layout of each has exactly one screen.
C21_IdCollision ==
  [][\A p \in Peers, q \in Peers :
       Twins(p, q) =>
         /\ HandlesEcho(q, p) => store'[p] = store[p] /\ \A r \in Peers : Sent(p, r) = <<>>
         /\ Keys(store'[p].windows) \subseteq {Me(p)}
         /\ \A i \in 1..Len(store'[p].windows) :
              store'[p].windows[i].rect = store'[p].winRect
         /\ ticksRun'[p] > STARTUP_GRACE_PERIOD_TICKS =>
              store'[p].isLeader /\ LayoutLen(p)' = 1]_vars

\* Both twins are past the grace period and have handled every message of
\* the other; they were started at different instants.
C21_Witness ==
  \E p \in Peers, q \in Peers :
    /\ Twins(p, q) /\ Running(p) /\ Running(q) /\ Quiet
    /\ createdAt[p] # createdAt[q]
    /\ ticksRun[p] > STARTUP_GRACE_PERIOD_TICKS /\ ticksRun[q] > STARTUP_GRACE_PERIOD_TICKS
    /\ store[p].isLeader /\ store[q].isLeader
    /\ LayoutLen(p) = 1 /\ LayoutLen(q) = 1

\* This step is a set() or update() of the Store.
Writes == cell'.listeners = cell.listeners /\ cell'.rounds # <<>> /\ cell' # cell
\* The listeners the emit() number k of c called, in the order of the calls.
CalledIn(c, k) ==
  [i \in 1..Len(SelectSeq(c.calls, LAMBDA e : e.round = k)) |->
     SelectSeq(c.calls, LAMBDA e : e.round = k)[i].listener]

\* C22: Store.set and Store.update call, before they return, every listener
\* subscribed at that moment once, in order of subscription, with the new
\* snapshot; a listener that throws neither keeps the later listeners from
\* being called nor makes set/update throw; a listener whose unsubscribe
\* function has been called is not called by later writes.  (A write made by
\* a listener during the round is a write of its own, with a round of its own.)
C22_Notifies ==
  [][Writes =>
       /\ ~cell'.failed
       /\ \A k \in 1..Len(cell'.rounds) : CalledIn(cell', k) = cell.listeners
       /\ Len(cell'.rounds) = 1 =>
            \A i \in 1..Len(cell'.calls) : cell'.calls[i].got = cell'.state]_vars

\* The latest write called the throwing listener and then, with the new
\* snapshot, the listener subscribed after it.
C22_Witness ==
  /\ Len(cell.listeners) = 2 /\ Len(cell.calls) = 2 /\ ~cell.failed
  /\ cell.listeners = <<"thrower", "second">>
  /\ cell.calls[1].listener = "thrower" /\ cell.calls[2].listener = "second"
  /\ cell.calls[2].got = cell.state /\ cell.state.count = 3 /\ cell.state.name = "updated"

\* C23: every call of a listener gets the snapshot produced by the write that
\* set off that round of notifications, also when an earlier listener of the
\* round writes to the Store again while it is being called.
C23_AsClaimed ==
  \A i \in 1..Len(cell.calls) : cell.calls[i].got = cell.rounds[cell.calls[i].round]

\* This step is a message event on the adapter.
Receives == adapter'.received = adapter.received + 1
\* The handlers the latest message event called, in the order of the calls.
HandlersCalled(a) == [i \in 1..Len(a.calls) |-> a.calls[i].handler]

\* C24: an inbound message that is null or has no or an empty type is handed
\* to no handler and changes no store; a well-formed message is handed once
\* to every registered handler, and a handler that throws does not keep the
\* other handlers from getting it.
C24_Dispatch ==
  [][Receives =>
       IF Dropped(adapter'.last)
       THEN adapter'.calls = <<>> /\ store' = store /\ net' = net
       ELSE /\ HandlersCalled(adapter') = adapter.listeners
            /\ \A i \in 1..Len(adapter'.calls) : adapter'.calls[i].got = adapter'.last
            /\ ~adapter'.failed]_vars

\* After the throwing handler the engine's got a SHARED_DATA_UPDATE and wrote
\* it to the store, and an earlier event without type left no trace.
C24_Witness ==
  /\ adapter.listeners = <<"thrower", "engine">>
  /\ HandlersCalled(adapter) = <<"thrower", "engine">>
  /\ adapter.last = SharedDataUpdate("k1", 1)
  /\ adapter.received = 2
  /\ store["A"].sharedData = <<[key |-> "k1", value |-> 1]>>

\* h_i = 31 * h_(i-1) + charCode(s_i), kept as eight hexadecimal places with
\* the lowest first; a carry out of the eighth place is dropped (mod 2^32).
RECURSIVE Times31Plus(_, _, _)
Times31Plus(places, i, carry) ==
  IF i > 8 THEN <<>>
  ELSE <<(31 * places[i] + carry) % 16>>
         \o Times31Plus(places, i + 1, (31 * places[i] + carry) \div 16)
RECURSIVE Horner(_, _, _)
Horner(str, i, places) ==
  IF i > Len(str) THEN places
  ELSE Horner(str, i + 1, Times31Plus(places, 1, charCodeAt(str[i])))
\* The index of the highest place that is not zero, 1 if there is none.
Top(places) ==
  IF \A i \in 1..8 : places[i] = 0 THEN 1
  ELSE CHOOSE i \in 1..8 : places[i] # 0 /\ \A j \in (i + 1)..8 : places[j] = 0
LowerHex(places) == [i \in 1..Top(places) |-> HexDigit(places[Top(places) + 1 - i])]
ExpectedId(str) ==
  IF str = <<>> THEN <<"d", "e", "f", "a", "u", "l", "t">>
  ELSE <<"v", "w", "i", "n", ":">> \o LowerHex(Horner(str, 1, [i \in 1..8 |-> 0]))

\* C25: generateSessionId("") is "default"; for a non-empty s it is "vwin:"
\* followed by the lowercase hexadecimal of h_n mod 2^32 with h_0 = 0 and
\* h_i = 31 * h_(i-1) + charCode(s_i); two tabs booted with the same layout
\* string have the same session id.
C25_SessionId ==
  /\ \A p \in Tabs : session[p].sessionId = ExpectedId(session[p].layoutString)
  /\ \A p \in Tabs, q \in Tabs :
       session[p].layoutString = session[q].layoutString
         => session[p].sessionId = session[q].sessionId

\* Both tabs booted with the same seven letters, whose hash has passed 2^32
\* (31^6 * 97 alone is more), and got the same id; an empty layout string
\* gives "default" (the initial state, and any tab booted with "").
C25_Witness ==
  /\ session["A"].layoutString = Run("a", 7)
  /\ session["B"].layoutString = Run("a", 7)
  /\ session["A"].sessionId = session["B"].sessionId
  /\ Len(session["A"].sessionId) = 5 + 8

\* C26: different layout strings give different session ids.
C26_AsClaimed ==
  \A p \in Tabs, q \in Tabs :
    session[p].layoutString # session[q].layoutString
      => session[p].sessionId # session[q].sessionId

\* Two strings of the same length that differ in exactly one place.
DifferInOnePlace(s1, s2) ==
  /\ Len(s1) = Len(s2)
  /\ Cardinality({i \in 1..Len(s1) : s1[i] # s2[i]}) = 1

\* What holds of C26: two layout strings of the same length that differ in
\* exactly one place, such as "test1" and "test2", get different session ids.
C26_OnePlace ==
  \A p \in Tabs, q \in Tabs :
    DifferInOnePlace(session[p].layoutString, session[q].layoutString)
      => session[p].sessionId # session[q].sessionId

\* One tab booted with "test1" and the other with "test2", as in the test,
\* and they are in different sessions.
C26_Witness ==
  /\ session["A"].layoutString = <<"t", "e", "s", "t", "1">>
  /\ session["B"].layoutString = <<"t", "e", "s", "t", "2">>
  /\ session["A"].sessionId # session["B"].sessionId

\* "Aa" and "BB" are both vwin:840, and "test" is vwin:364492.
KnownSessionIds ==
  /\ generateSessionId(<<"A", "a">>) = <<"v", "w", "i", "n", ":", "8", "4", "0">>
  /\ generateSessionId(<<"B", "B">>) = <<"v", "w", "i", "n", ":", "8", "4", "0">>
  /\ generateSessionId(<<"t", "e", "s", "t">>)
       = <<"v", "w", "i", "n", ":", "3", "6", "4", "4", "9", "2">>

\* C27: recalculateWorld() called twice in succession on a leader leaves,
\* after the second call, store.layout with the frame and screens it had
\* after the first, and the second call broadcasts the LAYOUT_UPDATE the
\* first did.
C27_Idempotent ==
  IsSome(world) =>
    /\ The(world).second.layout = The(world).first.layout
    /\ The(world).second.out = The(world).first.out

\* The two calls were made on a leader without static layout that knows a
\* second window, and each broadcast a layout of two screens.
C27_Witness ==
  /\ IsSome(world)
  /\ Len(The(world).first.out) = 1
  /\ Len(The(world).first.out[1].payload.screens) = 2
  /\ ~IsSome(staticLayout[The(world).by].layout)
  /\ Len(The(world).second.out) = 1

\* The layout has a screen with id p at the place and of the size of rect.
ScreenAt(layout, p, rect) ==
  /\ IsSome(layout)
  /\ \E i \in 1..Len(The(layout).screens) :
       The(layout).screens[i] = [id |-> p, x |-> rect.x, y |-> rect.y, w |-> rect.w, h |-> rect.h]
\* p's own entry in its windows map carries rect.
OwnEntryAt(p, rect) ==
  /\ HasKey(store[p].windows, Me(p))
  /\ Lookup(store[p].windows, Me(p)).rect = rect
\* This step is updateRect(rect) on p.
UpdatesRect(p, rect) == store[p].winRect # rect /\ store'[p].winRect = rect

\* C28: after updateRect(r) on a running window p, also at the clock reading
\* of p's previous publishSelf, p's store has winRect = r and p's own entry
\* in its windows map carries rect r.
C28_AsClaimed ==
  [][\A p \in Roster : \A rect \in {InitialRect(p), MovedRect(p)} :
       UpdatesRect(p, rect) /\ Running(p) => OwnEntryAt(p, rect)']_vars

\* The rest of C28: once the messages are delivered, the layout of every
\* leader and p's own layout have a screen with id p at r's place and of r's
\* size.  It fails with the own entry: the leader recalculates from it.
C28_LayoutAsClaimed ==
  \A p \in Roster, q \in Roster :
    /\ Running(p) /\ Running(q) /\ Quiet
    /\ store[q].isLeader
    /\ store[p].winRect = MovedRect(p)
    => /\ ScreenAt(store[q].layout, Me(p), MovedRect(p))
       /\ ScreenAt(store[p].layout, Me(p), MovedRect(p))

\* What holds of C28: updateRect(r) at a clock reading other than that of
\* p's previous publishSelf leaves r in p's own entry.
C28_LaterReading ==
  [][\A p \in Roster : \A rect \in {InitialRect(p), MovedRect(p)} :
       /\ UpdatesRect(p, rect) /\ Running(p)
       /\ Lookup(store[p].windows, Me(p)).timestamp # now
       => OwnEntryAt(p, rect)']_vars

\* r handles a GOODBYE of s in this step.
HandlesGoodbyeOf(s, r) ==
  /\ s # r
  /\ net[<<s, r>>] # <<>>
  /\ Head(net[<<s, r>>]).type = "GOODBYE"
  /\ net'[<<s, r>>] = Tail(net[<<s, r>>])
  /\ network[r] /\ disposed'[r] = disposed[r]
\* This step is a recompute trigger on r: a HELLO/HEARTBEAT, GOODBYE or
\* REQUEST_LAYOUT of a peer handled by the leader r, or the tick in which r
\* becomes leader.
Recomputes(r) ==
  \/ /\ store[r].isLeader
     /\ \E s \in Peers :
          HandlesHeartbeat(s, r) \/ HandlesGoodbyeOf(s, r) \/ HandlesRequestLayout(s, r)
  \/ Ticks(r) /\ ~store[r].isLeader /\ store'[r].isLeader
\* The step sends LAYOUT_UPDATE with payload layout to every window that hears r.
BroadcastsLayout(r, layout) ==
  \A q \in Peers :
    Hears(q, r) => \E i \in 1..Len(Sent(r, q)) : Sent(r, q)[i] = LayoutUpdate(layout)

\* C29: while a static layout S is installed on a leader, every recompute
\* trigger (a peer's HELLO/HEARTBEAT, GOODBYE or REQUEST_LAYOUT, becoming
\* leader) broadcasts LAYOUT_UPDATE with payload S and leaves store.layout = S,
\* whatever windows join or leave.
C29_StaticLeader ==
  [][\A r \in Peers :
       IsSome(staticLayout[r].layout) /\ Recomputes(r) =>
         /\ store'[r].layout = staticLayout[r].layout
         /\ BroadcastsLayout(r, The(staticLayout[r].layout))]_vars

\* A leader with a static layout of its own making has handled the GOODBYE of
\* a window that closed: its layout is the static one, with the one screen,
\* although it still knows two windows, and the LAYOUT_UPDATE for the window
\* that is left is under way.
C29_Witness ==
  \E r \in Mesh, q \in Mesh :
    /\ r # q /\ Running(r) /\ Running(q)
    /\ store[r].isLeader
    /\ \E d \in Mesh : disposed[d] /\ ~HasKey(store[r].windows, Me(d))
    /\ staticLayout[r].layout = Some(OwnScreenLayout(r))
    /\ store[r].layout = Some(OwnScreenLayout(r))
    /\ Len(store[r].windows) = 2
    /\ net[<<r, q>>] # <<>>
    /\ net[<<r, q>>][Len(net[<<r, q>>])] = LayoutUpdate(OwnScreenLayout(r))

\* C30: on a window on which a static layout S is installed, store.layout is
\* S in every state after the installation, and viewportOffset is computed
\* against S.frame, whatever LAYOUT_UPDATE the window receives.
C30_AsClaimed ==
  \A p \in Peers :
    phase[p] # "absent" /\ IsSome(staticLayout[p].layout) =>
      /\ store[p].layout = staticLayout[p].layout
      /\ IsSome(store[p].virtualRect) => OffsetFrom(p, The(staticLayout[p].layout))

\* What holds of C30: the layout of the store leaves S only when a window
\* that is no leader handles a LAYOUT_UPDATE with another payload, and the
\* next recalculateWorld() of the window puts S back; viewportOffset is
\* computed against S.frame throughout (C13_ViewportOffset).
C30_OnlyLayoutUpdate ==
  [][\A r \in Peers :
       /\ IsSome(staticLayout[r].layout)
       /\ staticLayout'[r] = staticLayout[r]
       /\ store[r].layout = staticLayout[r].layout
       /\ store'[r].layout # staticLayout[r].layout
       => /\ ~store[r].isLeader
          /\ \E s \in Peers :
               /\ HandlesLayoutUpdate(s, r)
               /\ store'[r].layout = Some(Head(net[<<s, r>>]).payload)]_vars

\* This step is setStaticLayout(layout) on p.
SetsStaticLayout(p, layout) ==
  /\ staticLayout[p].engine # layout
  /\ staticLayout'[p].engine = layout
  /\ phase'[p] = phase[p]
\* The layout a leader computes from the windows it knows.
DynamicLayout(st) == recalculateWorld(st, TRUE, None).st.layout

\* C31: setStaticLayout(L) returns with store.layout = L and LAYOUT_UPDATE(L)
\* broadcast; setStaticLayout(none) on a leader returns with store.layout
\* recomputed from the windows the leader knows.
C31_AsClaimed ==
  [][\A p \in Pair :
       /\ \A layout \in {Some(OwnScreenLayout(p))} :
            SetsStaticLayout(p, layout) =>
              store'[p].layout = layout /\ BroadcastsLayout(p, The(layout))
       /\ SetsStaticLayout(p, None) /\ store[p].isLeader =>
            store'[p].layout = DynamicLayout(store[p])]_vars

\* What holds of C31: setStaticLayout(L) returns with store.layout = L and
\* LAYOUT_UPDATE(L) sent to every window that hears p; setStaticLayout(none)
\* leaves store.layout as it was.
C31_InstallOnly ==
  [][\A p \in Pair :
       /\ \A layout \in {Some(OwnScreenLayout(p))} :
            SetsStaticLayout(p, layout) =>
              store'[p].layout = layout /\ BroadcastsLayout(p, The(layout))
       /\ SetsStaticLayout(p, None) => store'[p].layout = store[p].layout]_vars

\* This step makes the leader r, which holds no static layout, recalculate
\* the world: it handles a peer's HELLO/HEARTBEAT, or its window was moved.
Recalculates(r) ==
  /\ store[r].isLeader
  /\ ~IsSome(staticLayout[r].layout)
  /\ \/ \E s \in Peers : HandlesHeartbeat(s, r)
     \/ store'[r].winRect # store[r].winRect
\* The screen of a windows entry: its virtualRect if present, else its rect.
ScreenFor(w) ==
  IF IsSome(w.virtualRect)
  THEN [id |-> w.id, x |-> The(w.virtualRect).x, y |-> The(w.virtualRect).y,
        w |-> The(w.virtualRect).w, h |-> The(w.virtualRect).h]
  ELSE [id |-> w.id, x |-> w.rect.x, y |-> w.rect.y, w |-> w.rect.w, h |-> w.rect.h]
\* The bounding box of a non-empty sequence of screens.
BoundingBox(screens) ==
  LET I == 1..Len(screens)
      left == CHOOSE v \in {screens[i].x : i \in I} : \A i \in I : v <= screens[i].x
      top == CHOOSE v \in {screens[i].y : i \in I} : \A i \in I : v <= screens[i].y
      right == CHOOSE v \in {screens[i].x + screens[i].w : i \in I} :
                 \A i \in I : v >= screens[i].x + screens[i].w
      bottom == CHOOSE v \in {screens[i].y + screens[i].h : i \in I} :
                  \A i \in I : v >= screens[i].y + screens[i].h
  IN [x |-> left, y |-> top, w |-> right - left, h |-> bottom - top]
LayoutWith(screens) == [v |-> 1, frame |-> BoundingBox(screens), screens |-> screens]
\* One screen per entry with a rect of positive width and height.
ScreensOfPositive(ws) ==
  LET keep == SelectSeq(ws, LAMBDA w : w.rect.w > 0 /\ w.rect.h > 0)
  IN [i \in 1..Len(keep) |-> ScreenFor(keep[i])]
\* One screen per entry with a rect of positive width.
ScreensOfWide(ws) ==
  LET keep == SelectSeq(ws, LAMBDA w : w.rect.w > 0)
  IN [i \in 1..Len(keep) |-> ScreenFor(keep[i])]
\* The step leaves the layout of r alone and sends no LAYOUT_UPDATE.
NoRecompute(r) ==
  /\ store'[r].layout = store[r].layout
  /\ \A q \in Peers : \A i \in 1..Len(Sent(r, q)) : Sent(r, q)[i].type # "LAYOUT_UPDATE"
\* The step sets the layout of r to the layout of screens and broadcasts it.
RecomputedTo(r, screens) ==
  /\ store'[r].layout = Some(LayoutWith(screens))
  /\ BroadcastsLayout(r, LayoutWith(screens))

\* C32: recalculateWorld() on a leader without static layout sets
\* store.layout to one screen per known window whose rect has w > 0 and
\* h > 0, framed by their union, and broadcasts it; if no window qualifies
\* the layout is left alone and nothing is broadcast.
C32_AsClaimed ==
  [][\A r \in Roster :
       Recalculates(r) =>
         IF ScreensOfPositive(store'[r].windows) = <<>> THEN NoRecompute(r)
         ELSE RecomputedTo(r, ScreensOfPositive(store'[r].windows))]_vars

\* What holds of C32: the screens are those of the windows whose rect has
\* w > 0, whatever the height; the layout is set and broadcast if there is
\* such a window and every screen has a positive height, else it is left
\* alone and nothing is broadcast.
C32_PositiveWidth ==
  [][\A r \in Roster :
       Recalculates(r) =>
         IF /\ ScreensOfWide(store'[r].windows) # <<>>
            /\ \A i \in 1..Len(ScreensOfWide(store'[r].windows)) :
                 ScreensOfWide(store'[r].windows)[i].h > 0
         THEN RecomputedTo(r, ScreensOfWide(store'[r].windows))
         ELSE NoRecompute(r)]_vars

\* The windows ws give a layout that LayoutZ rejects: a screen without height.
Rejected(ws) ==
  /\ ScreensOfWide(ws) # <<>>
  /\ \E i \in 1..Len(ScreensOfWide(ws)) : ScreensOfWide(ws)[i].h <= 0
\* r keeps its timers and its transport.
StillRuns(r) == heartbeatTimer[r] # NoTimer /\ cleanupTimer[r] # NoTimer /\ network[r]

\* C33: when layout validation fails during a leader's recompute, store.layout
\* keeps its value and no LAYOUT_UPDATE is broadcast; isLeader and the windows
\* map are as the trigger left them, and the window goes on ticking and
\* handling messages.
C33_Aborted ==
  [][\A r \in Roster :
       /\ (/\ store[r].isLeader
           /\ \E s \in Peers : HandlesHeartbeat(s, r)
           /\ Rejected(store'[r].windows))
          => /\ NoRecompute(r)
             /\ store'[r] = [store[r] EXCEPT !.windows = store'[r].windows]
             /\ \E s \in Peers :
                  /\ HandlesHeartbeat(s, r)
                  /\ store'[r].windows =
                       Upsert(store[r].windows,
                              [Head(net[<<s, r>>]).payload EXCEPT !.lastSeen = now])
             /\ StillRuns(r)'
       /\ (/\ Ticks(r) /\ ~store[r].isLeader /\ store'[r].isLeader
           /\ Rejected(store'[r].windows))
          => /\ NoRecompute(r)
             /\ StillRuns(r)']_vars

\* The leader holds a layout of two full screens although it knows the other
\* window as flat, and a tick has run since the clock reading of that entry.
C33_Witness ==
  \E r \in Roster, q \in Roster :
    /\ r # q /\ Running(r) /\ store[r].isLeader
    /\ HasKey(store[r].windows, Me(q))
    /\ Lookup(store[r].windows, Me(q)).rect = FlatRect(q)
    /\ Lookup(store[r].windows, Me(r)).rect = InitialRect(r)
    /\ IsSome(store[r].layout)
    /\ Len(The(store[r].layout).screens) = 2
    /\ \A i \in 1..2 : The(store[r].layout).screens[i].h = 100
    /\ Lookup(store[r].windows, Me(r)).timestamp > Lookup(store[r].windows, Me(q)).timestamp

\* ---------------------------------------------------------------------------
\* C34: once dispose() has run with the GOODBYE broadcast throwing, both
\* timers are stopped and stay stopped, and the engine handles no inbound
\* message any more: the store of the disposed window never changes again.
C34_AsClaimed ==
  [][\A p \in Peers :
       (disposed[p] /\ leftOpen[p])
         => /\ heartbeatTimer'[p] = NoTimer /\ cleanupTimer'[p] = NoTimer
            /\ store'[p] = store[p]]_vars

\* What holds of C34: the timers are stopped and nothing is sent any more.
C34_TimersStopped ==
  [][\A p \in Peers :
       (disposed[p] /\ leftOpen[p])
         => /\ heartbeatTimer'[p] = NoTimer /\ cleanupTimer'[p] = NoTimer
            /\ \A r \in Peers : Len(net'[<<p, r>>]) <= Len(net[<<p, r>>])]_vars

\* ---------------------------------------------------------------------------
\* This step is a cleanup tick of p.
CleansUp(p) == cleanupTimer[p] # NoTimer /\ cleanupTimer'[p] = cleanupTimer[p] + CLEANUP_INTERVAL
\* The entry w of p's windows map is another window's, last seen more than
\* WINDOW_TIMEOUT ago.
Stale(p, w) == w.id # store[p].windowId /\ now - w.lastSeen > WINDOW_TIMEOUT
Remaining(p) == SelectSeq(store[p].windows, LAMBDA w : ~Stale(p, w))
RemovedIds(p) == {store[p].windows[i].id : i \in {j \in 1..Len(store[p].windows) : Stale(p, store[p].windows[j])}}
\* The cleanup tick of p removes exactly the stale entries and touches nothing
\* else but the layout and the local view; it writes and sends nothing when
\* there is no stale entry.
RemovesStale(p) ==
  /\ store'[p].windows = Remaining(p)
  /\ store'[p] = [store[p] EXCEPT !.windows = Remaining(p), !.layout = store'[p].layout,
                                  !.assignedScreenId = store'[p].assignedScreenId,
                                  !.viewportOffset = store'[p].viewportOffset,
                                  !.virtualRect = store'[p].virtualRect]
  /\ Remaining(p) = store[p].windows
       => store'[p] = store[p] /\ \A q \in Peers : Sent(p, q) = <<>>

\* C35: a cleanup tick removes exactly the entries other than self with
\* now - lastSeen > 5000 ms; without a removal the store is not written;
\* after a removal on a leader without static layout the layout is a
\* recomputed one that has no screen of a removed peer.
C35_AsClaimed ==
  [][\A p \in Roster :
       CleansUp(p) =>
         /\ RemovesStale(p)
         /\ (Remaining(p) # store[p].windows /\ store[p].isLeader /\ staticLayout[p] = NoStatic)
              => /\ IsSome(store'[p].layout)
                 /\ \A i \in 1..Len(The(store'[p].layout).screens) :
                      The(store'[p].layout).screens[i].id \notin RemovedIds(p)]_vars

\* What holds of C35: after a removal on a leader without static layout the
\* world is recalculated from the remaining entries. If one of them has a
\* positive width and validation accepts their screens, the layout is set to
\* these screens and broadcast, and has no screen of a removed peer;
\* otherwise the layout stays as it was.
C35_Cleanup ==
  [][\A p \in Roster :
       CleansUp(p) =>
         /\ RemovesStale(p)
         /\ IF Remaining(p) # store[p].windows /\ store[p].isLeader /\ staticLayout[p] = NoStatic
            THEN IF /\ ScreensOfWide(Remaining(p)) # <<>>
                    /\ \A i \in 1..Len(ScreensOfWide(Remaining(p))) :
                         ScreensOfWide(Remaining(p))[i].h > 0
                 THEN /\ RecomputedTo(p, ScreensOfWide(Remaining(p)))
                      /\ \A i \in 1..Len(The(store'[p].layout).screens) :
                           The(store'[p].layout).screens[i].id \notin RemovedIds(p)
                 ELSE NoRecompute(p)
            ELSE store'[p] = [store[p] EXCEPT !.windows = Remaining(p)]]_vars

\* A leader whose cleanup removed the dead window and whose layout was
\* recomputed to its own screen alone.
C35_Witness ==
  \E p \in Roster, q \in Roster :
    /\ health[q] = "crashed" /\ health[p] = "ok" /\ store[p].isLeader
    /\ store[p].winRect = InitialRect(p)
    /\ cleanupTimer[p] > 2 * CLEANUP_INTERVAL
    /\ ~HasKey(store[p].windows, q)
    /\ IsSome(store[p].layout)
    /\ Len(The(store[p].layout).screens) = 1
    /\ The(store[p].layout).screens[1].id = store[p].windowId

\* ---------------------------------------------------------------------------
\* The REQUEST_LAYOUT messages among msgs.
Requests(msgs) == SelectSeq(msgs, LAMBDA m : m.type = "REQUEST_LAYOUT")
\* A heartbeat tick of p after the grace period sends one REQUEST_LAYOUT to
\* every window that hears p if p is neither leader nor holds a layout, and
\* none otherwise.
PollsWhenEmpty(p) ==
  (Ticks(p) /\ ticksSinceStart[p] >= STARTUP_GRACE_PERIOD_TICKS) =>
    \A q \in Peers :
      Hears(q, p) =>
        Len(Requests(Sent(p, q))) =
          IF ~store[p].isLeader /\ ~IsSome(store[p].layout) THEN 1 ELSE 0
\* The windows map of l has an entry with a rect of positive width and height.
ValidScreen(l) ==
  \E i \in 1..Len(store[l].windows) :
    store[l].windows[i].rect.w > 0 /\ store[l].windows[i].rect.h > 0
\* f is a follower without layout, and a leader with a valid screen and f
\* hear each other.
Waiting(f) ==
  /\ Started(f) /\ health[f] = "ok" /\ ~store[f].isLeader /\ ~IsSome(store[f].layout)
  /\ \E l \in Peers :
       /\ Started(l) /\ health[l] = "ok" /\ store[l].isLeader
       /\ Hears(l, f) /\ Hears(f, l) /\ ValidScreen(l)

C36_Polling == [][\A p \in Roster : PollsWhenEmpty(p)]_vars

\* What holds of C36: the follower gets its layout if every window keeps a
\* height.
C36_TallWindows ==
  [](\A p \in Roster : Started(p) => store[p].winRect = InitialRect(p))
    => \A f \in Roster : Waiting(f) ~> ~Waiting(f)

\* ---------------------------------------------------------------------------
\* The layout recalculateLocalView works on in the call v: the static layout
\* if there is one, else the layout of the store.
ActiveOf(v) == IF IsSome(v.sl) THEN v.sl ELSE v.st.layout
ScreenIdsOf(layout) == {layout.screens[i].id : i \in 1..Len(layout.screens)}
\* The first screen of layout with this id.
ScreenNamed(layout, id) ==
  layout.screens[CHOOSE i \in 1..Len(layout.screens) :
                   layout.screens[i].id = id /\ \A j \in 1..(i - 1) : layout.screens[j].id # id]
\* The relative position the call v uses on screen scr.
RelativePosOf(v, scr) ==
  IF IsSome(boot.screenPosition) THEN The(boot.screenPosition)
  ELSE [x |-> v.st.winRect.x - scr.x, y |-> v.st.winRect.y - scr.y]
\* The call v commits the screen id and the virtualRect the overrides and the
\* layout give.
CommitsView(v, layout) ==
  /\ v.out.assignedScreenId \in ScreenIdsOf(layout)
  /\ v.out.assignedScreenId =
       IF boot.screenId # Undefined /\ boot.screenId \in ScreenIdsOf(layout)
       THEN boot.screenId
       ELSE assignScreenForWindow(v.st.windowId, v.st.winRect, layout.screens,
                                  PhysicalScreenSize(v.st.windowId))
  /\ \E scr \in {ScreenNamed(layout, v.out.assignedScreenId)} :
       v.out.virtualRect =
         Some([x |-> scr.x + RelativePosOf(v, scr).x, y |-> scr.y + RelativePosOf(v, scr).y,
               w |-> v.st.winRect.w, h |-> v.st.winRect.h])
  /\ ~IsSome(boot.screenPosition) => v.out.virtualRect = Some(v.st.winRect)

C38_OnlyByUpdate ==
  [][\A r \in Peers :
       (~store[r].isLeader /\ ~store'[r].isLeader /\ store'[r].layout # store[r].layout)
         => \E s \in Peers :
              /\ HandlesLayoutUpdate(s, r)
              /\ store'[r].layout = Some(Head(net[<<s, r>>]).payload)]_vars

\* ---------------------------------------------------------------------------
\* C39: in every reachable state a window with isLeader = true has its own id
\* as leaderId.
C39_LeaderIsSelf ==
  \A p \in Peers : store[p].isLeader => store[p].leaderId = store[p].windowId

\* After the merge of the bus: C, which led its group, follows A, and A leads
\* under its own id.
C39_Witness ==
  /\ healedAt # NoTimer
  /\ store["A"].isLeader /\ store["A"].leaderId = "A"
  /\ ~store["C"].isLeader /\ store["C"].leaderId = "A"
  /\ store["D"].leaderId = "A"

\* ---------------------------------------------------------------------------
\* The ids of the entries of p's windows map with a rect of positive width.
WideIds(p) ==
  {store[p].windows[i].id : i \in {j \in 1..Len(store[p].windows) : store[p].windows[j].rect.w > 0}}
\* p still holds an entry of d that the election no longer counts.
HoldsTimedOut(p, d) ==
  /\ HasKey(store[p].windows, d)
  /\ now - Lookup(store[p].windows, d).lastSeen >= WINDOW_TIMEOUT

\* C40: recalculateWorld() does not look at lastSeen: the layout a window
\* computes when it takes leadership has a screen for every entry of positive
\* width in its windows map, also for an entry that the election already
\* ignores as timed out; and as long as the leader holds such an entry its
\* layout holds the screen.
C40_StaleScreen ==
  /\ [][\A p \in Mesh :
          (Ticks(p) /\ ~store[p].isLeader /\ store'[p].isLeader)
            => IsSome(store'[p].layout) /\ LayoutIds(p)' = WideIds(p)']_vars
  /\ [](\A p \in Mesh :
          (store[p].isLeader /\ health[p] = "ok" /\ IsSome(store[p].layout))
            => \A d \in Mesh : HoldsTimedOut(p, d) => d \in LayoutIds(p))

\* The new leader after a silent death, holding the dead leader's entry, timed
\* out, and the dead leader's screen in its layout.
C40_Witness ==
  \E p \in Mesh, d \in Mesh :
    /\ p # d /\ health[d] = "crashed" /\ health[p] = "ok"
    /\ store[p].isLeader /\ store[p].leaderId = p
    /\ HoldsTimedOut(p, d)
    /\ IsSome(store[p].layout) /\ d \in LayoutIds(p)

====
